---- MODULE Spec2Model ----
(***************************************************************************)
(* Model of the kernel runtime of crates/repl (runtimes.rs): the launch of *)
(* a kernel process (RunningKernel::new), the four routing tasks it        *)
(* starts, and the teardown of a RunningKernel (impl Drop).                *)
(*                                                                         *)
(* The kernel process, the sockets, the callers of the request endpoint    *)
(* and the reader of the merged inbound stream are the environment.        *)
(***************************************************************************)
EXTENDS Integers, Sequences, FiniteSets, TLC

\* ------------------------------------------------------------------ bounds
\* Requests the callers submit to a running kernel (SpecMux).
MaxRequests == 3
\* Requests of any kind submitted to a kernel that is not dropped (SpecRouting).
RoutingRequests == 3
\* Requests submitted in the runs without read failures (SpecNoShellReply,
\* SpecSendFailures).
FairRequests == 5
\* Requests and iopub messages in the runs of the broadcast relay (SpecRelay).
RelayRequests == 1
RelayIopub == 2
\* Requests and iopub messages in a run that follows a kernel from its launch
\* to its drop (Spec).
LifeRequests == 2
LifeIopub == 1
\* Buffer of every mpsc channel. The code passes 100 (runtimes.rs:185-209); the
\* model scales it down. A channel of buffer b with one sender holds b + 1
\* messages before send() suspends.
ChanBuffer == 1
\* Longest argv of a kernelspec.
MaxArgv == 3
\* Port numbers the operating system chooses from when a listener binds to
\* port 0 (the dynamic range, scaled down): in the runs of the port
\* allocation (SpecPorts), and in the runs of a whole launch (SpecLaunch, Spec).
PortRange == 5
LaunchPortRange == 2
\* Calls of set_execution_state and set_kernel_info on one Kernel (SpecKernel).
MaxUpdates == 3
\* Entries of one kernels directory (SpecDiscovery).
MaxEntries == 2
\* Kernel specifications the panel holds, and calls of run (SpecPanel).
MaxSpecs == 2
MaxRuns == 3
\* Keystrokes of the user, and the count typed before one (SpecVim).
MaxSteps == 4
MaxCount == 2

\* --------------------------------------------------------------- constants
\* peek_ports returns [u16; 5]
NumPorts == 5
Placeholder == "{connection_file}"
\* RuntimeSpecification::name of the kernelspec that is launched
KernelspecName == "python3"
ConnectionPath == "kernel-zed-1.json"
Tokens == {"python3", Placeholder}

\* The kinds of JupyterMessageContent a caller submits.
Kinds == {"execute_request", "kernel_info_request", "debug_request",
          "interrupt_request", "shutdown_request"}
\* The kinds submitted where the run is long: one that goes to the shell, two
\* that go to control.
MuxKinds == {"execute_request", "interrupt_request", "shutdown_request"}

Channels == {"shell", "control"}
Sources == {"iopub", "shell", "control"}
Tasks == {"iopub", "routing", "shell", "control"}
Terminal == {"ok", "err", "cancelled"}
FsKinds == {"RealFs", "FakeFs"}

NoMsg == [id |-> 0, kind |-> "none", origin |-> "none"]
NoCmd == [ok |-> FALSE, error |-> "none", kernelspec |-> "", program |-> "",
          args |-> <<>>]
\* The anyhow::Error a launch ends with: the step that failed, the message,
\* and the kernelspec the message names ("" when it names none).
LaunchError(step, message, names) ==
    [step |-> step, message |-> message, kernelspec |-> names]
NoError == LaunchError("none", "", "")

VARIABLES
    \* RunningKernel::new, its inputs and locals
    argv,           \* runtime_specification.kernelspec.argv
    fs,             \* which Fs implementation the caller passed
    ports,          \* peek_ports: the ports recorded so far
    listening,      \* ports on which a TcpListener of peek_ports is open
    launch_pc,      \* position in RunningKernel::new, then the handle's life
    launch_error,   \* which step made the launch fail
    cmd,            \* the Command built by RuntimeSpecification::command
    files,          \* storages that hold the connection-descriptor file
    process,        \* the child process
    \* the routing tasks
    task,           \* position of each task
    hand,           \* the message each task holds across an await
    request_q,      \* request_tx -> request_rx
    request_open,   \* FALSE once close_channel() was called
    sub_q,          \* control_request / shell_request channels
    reply_q,        \* iosub, control_reply_rx, shell_reply_rx
    sock_in,        \* requests the kernel received on a socket, not answered yet
    sock_out,       \* messages the kernel sent on a socket, not read yet
    inbound,        \* what the reader of messages_rx has received, in order
    \* history
    submitted,      \* requests accepted by the request endpoint, in order
    rejected,       \* requests the endpoint refused
    routed,         \* per sub-queue, the requests the router put in it
    sent,           \* per socket, the requests sent on it
    send_failed,    \* per socket, the requests whose send failed
    read_failed,    \* tasks whose socket read returned an error
    seen,           \* per socket, the messages a task read from it
    published,      \* number of messages the kernel published on iopub
    \* the Kernel of a session
    kernel,         \* the Kernel value
    updates,        \* the calls of set_execution_state / set_kernel_info, in order
    indicator,      \* the last Indicator dot() returned, and for which Kernel
    \* discovery of the kernelspecs
    roots,          \* per data dir, its kernels directory: the listing, or none
    dir_results,    \* per data dir, the result of read_kernels_dir
    discovered,     \* the result of get_runtime_specifications
    \* RuntimePanel
    enabled,        \* RuntimePanel::enabled
    kernel_specifications,  \* RuntimePanel::kernel_specifications
    sessions,       \* RuntimePanel::sessions: the kernelspec of each editor's session
    runs,           \* the number of calls of RuntimePanel::run
    last_run,       \* the last call of RuntimePanel::run and what it did
    \* vim: record and replay
    vim,            \* the workspace state of Vim, the replayers and the
                    \* callbacks deferred on the window
    steps,          \* the number of keystrokes handled
    last_call,      \* the last keystroke handled, and the count it took
    stopped         \* a replayer was stopped in this run

launchVars == <<argv, fs, ports, listening, launch_pc, launch_error, cmd, files,
               process>>
muxVars == <<task, hand, request_q, request_open, sub_q, reply_q, sock_in,
             sock_out, inbound>>
histVars == <<submitted, rejected, routed, sent, send_failed, read_failed,
              seen, published>>
trackerVars == <<kernel, updates, indicator>>
runtimeVars == <<launchVars, muxVars, histVars, trackerVars>>
discoveryVars == <<roots, dir_results, discovered>>
panelVars == <<enabled, kernel_specifications, sessions, runs, last_run>>
vimVars == <<vim, steps, last_call, stopped>>
appVars == <<discoveryVars, panelVars, vimVars>>
vars == <<runtimeVars, appVars>>

\* ------------------------------------------------------------- helpers
RECURSIVE SeqsUpTo(_, _)
SeqsUpTo(S, n) ==
    IF n = 0 THEN {<<>>}
    ELSE LET shorter == SeqsUpTo(S, n - 1)
         IN shorter \cup {Append(s, x) : s \in {t \in shorter : Len(t) = n - 1}, x \in S}

Argvs == SeqsUpTo(Tokens, MaxArgv)

Ended(t) == task[t] \in Terminal

\* futures::channel::mpsc::channel(buffer) with one Sender: the sender may
\* enqueue while at most `buffer` messages are queued; the send that makes the
\* queue exceed the buffer parks the sender until the receiver takes a message.
HasRoom(q) == Len(q) <= ChanBuffer

\* a command that builds the Command without looking for the placeholder
commandWithoutPlaceholderCheck(av, connection_path) ==
    IF Len(av) = 0
    THEN [ok |-> FALSE, error |-> "Empty argv in kernelspec {}",
          kernelspec |-> KernelspecName, program |-> "", args |-> <<>>]
    ELSE IF ~(Len(av) >= 2)
    THEN [ok |-> FALSE, error |-> "Invalid argv in kernelspec {}",
          kernelspec |-> KernelspecName, program |-> "", args |-> <<>>]
    ELSE [ok |-> TRUE, error |-> "", kernelspec |-> "", program |-> av[1],
          args |-> [i \in 1..(Len(av) - 1) |->
                        IF av[i + 1] = Placeholder THEN connection_path
                        ELSE av[i + 1]]]

\* a command that looks for the placeholder before it looks at the length
commandPlaceholderFirst(av, connection_path) ==
    IF ~(\E i \in 1..Len(av) : av[i] = Placeholder)
    THEN [ok |-> FALSE, error |-> "Missing 'connection_file' in argv in kernelspec {}",
          kernelspec |-> KernelspecName, program |-> "", args |-> <<>>]
    ELSE IF Len(av) = 0
    THEN [ok |-> FALSE, error |-> "Empty argv in kernelspec {}",
          kernelspec |-> KernelspecName, program |-> "", args |-> <<>>]
    ELSE IF ~(Len(av) >= 2)
    THEN [ok |-> FALSE, error |-> "Invalid argv in kernelspec {}",
          kernelspec |-> KernelspecName, program |-> "", args |-> <<>>]
    ELSE [ok |-> TRUE, error |-> "", kernelspec |-> "", program |-> av[1],
          args |-> [i \in 1..(Len(av) - 1) |->
                        IF av[i + 1] = Placeholder THEN connection_path
                        ELSE av[i + 1]]]

\* ------------------------------------------------ RuntimeSpecification
\* RuntimeSpecification::command: the three ensure! checks in order, then the
\* program argv[0] with argv[1..], each placeholder replaced by the path.
\* Every message is formatted with self.name.
command(av, connection_path) ==
    IF Len(av) = 0
    THEN [ok |-> FALSE, error |-> "Empty argv in kernelspec {}",
          kernelspec |-> KernelspecName, program |-> "", args |-> <<>>]
    ELSE IF ~(Len(av) >= 2)
    THEN [ok |-> FALSE, error |-> "Invalid argv in kernelspec {}",
          kernelspec |-> KernelspecName, program |-> "", args |-> <<>>]
    ELSE IF ~(\E i \in 1..Len(av) : av[i] = Placeholder)
    THEN [ok |-> FALSE, error |-> "Missing 'connection_file' in argv in kernelspec {}",
          kernelspec |-> KernelspecName, program |-> "", args |-> <<>>]
    ELSE [ok |-> TRUE, error |-> "", kernelspec |-> "", program |-> av[1],
          args |-> [i \in 1..(Len(av) - 1) |->
                        IF av[i + 1] = Placeholder THEN connection_path
                        ELSE av[i + 1]]]

\* The storage an Fs implementation writes to: RealFs writes the disk that
\* std::fs also sees, any other implementation (FakeFs) its own memory.
StorageOf(f) == IF f = "RealFs" THEN "disk" ELSE "memory"

\* ----------------------------------------------------------------- Init
InitMux ==
    /\ task = [t \in Tasks |-> "unspawned"]
    /\ hand = [t \in Tasks |-> NoMsg]
    /\ request_q = <<>>
    /\ request_open = TRUE
    /\ sub_q = [c \in Channels |-> <<>>]
    /\ reply_q = [s \in Sources |-> <<>>]
    /\ sock_in = [c \in Channels |-> <<>>]
    /\ sock_out = [s \in Sources |-> <<>>]
    /\ inbound = <<>>

InitHist ==
    /\ submitted = <<>>
    /\ rejected = <<>>
    /\ routed = [c \in Channels |-> <<>>]
    /\ sent = [c \in Channels |-> <<>>]
    /\ send_failed = [c \in Channels |-> <<>>]
    /\ read_failed = {}
    /\ seen = [s \in Sources |-> <<>>]
    /\ published = 0

InitLaunch ==
    /\ argv \in Argvs
    /\ fs \in FsKinds
    /\ ports = <<>>
    /\ listening = {}
    /\ launch_pc = "peek_ports"
    /\ launch_error = NoError
    /\ cmd = NoCmd
    /\ files = {}
    /\ process = "none"

\* The Kernel of the session is not followed in the runs of the launch and of
\* the routing tasks.
InitTracker ==
    /\ kernel = [variant |-> "StartingKernel", execution_state |-> "none",
                 kernel_info |-> "none"]
    /\ updates = <<>>
    /\ indicator = [color |-> "none", variant |-> "none",
                    execution_state |-> "none"]

\* The data dirs, in the order dirs::data_dirs() lists them.
DataDirs == <<"user_data", "system_data">>
NotScanned == [done |-> FALSE, ok |-> FALSE, specs |-> <<>>]
NoSession == [path |-> <<"none", 0>>, name |-> 0, language |-> "none"]
Editors == {"editor_1", "editor_2"}
None == [found |-> FALSE, spec |-> NoSession]
Some(spec) == [found |-> TRUE, spec |-> spec]
NoRun == [editor |-> "none", snippet |-> "none", result |-> "none",
          lookup |-> None, created |-> FALSE, executed_on |-> NoSession]

\* Nothing is scanned in the runs of the kernel and of the panel.
InitDiscovery ==
    /\ roots = [r \in 1..Len(DataDirs) |-> [listable |-> FALSE, entries |-> <<>>]]
    /\ dir_results = [r \in 1..Len(DataDirs) |-> NotScanned]
    /\ discovered = NotScanned

\* RuntimePanel::new: enabled as the settings say, no session, no kernelspec
\* before the first refresh.
InitPanel ==
    /\ enabled \in BOOLEAN
    /\ kernel_specifications = <<>>
    /\ sessions = [e \in Editors |-> NoSession]
    /\ runs = 0
    /\ last_run = NoRun

\* The registers of the model, the register that stands for the last one
\* replayed, and the absence of a register.
Registers == {"w", "z"}
LastReplayed == "@"
NoRegister == "none"
NoRecording == [present |-> FALSE, actions |-> <<>>]
NoCall == [op |-> "none", register |-> NoRegister, count |-> 0]

\* Vim with nothing recorded, the editor of the window active.
IdleVim ==
    [recordings |-> [r \in Registers |-> NoRecording],
     recording_register |-> NoRegister,
     last_recorded_register |-> NoRegister,
     last_replayed_register |-> NoRegister,
     replayer |-> 0,
     replayers |-> <<>>,
     deferred |-> <<>>,
     count |-> 0,
     active_editor |-> TRUE,
     dot_recording |-> FALSE,
     stop_recording_after_next_action |-> FALSE,
     ignore_current_insertion |-> FALSE,
     dot_replaying |-> FALSE,
     recorded_actions |-> <<>>,
     recorded_count |-> 0,
     recorded_selection |-> "None"]

InitVim ==
    /\ vim = IdleVim
    /\ steps = 0
    /\ last_call = NoCall
    /\ stopped = FALSE

\* The panel and Vim are left alone in the runs of the kernel.
InitApp == InitDiscovery /\ InitPanel /\ enabled = TRUE /\ InitVim

Init == InitLaunch /\ InitMux /\ InitHist /\ InitTracker /\ InitApp

\* ------------------------------------------------- RunningKernel::new
\* a Child that is never killed when its handle goes away
DropChildDetached(p) == p

\* what dropping the Child does: kill_on_drop(true) kills a live process
DropChild(p) == IF p = "alive" THEN "killed" ELSE p

\* The locals of the async block (runtime_specification, fs, ports, cmd, a
\* listener of peek_ports) are dropped when it returns, with a result or with
\* an error.
DropLocals ==
    /\ argv' = <<>>
    /\ fs' = "dropped"
    /\ ports' = <<>>
    /\ listening' = {}
    /\ cmd' = NoCmd

Fail(why) ==
    /\ launch_pc' = "failed"
    /\ launch_error' = why
    /\ DropLocals

\* The ports the operating system may assign to a bind of port 0: any port
\* on which nothing listens.
FreePorts(range, open) == (1..range) \ open

\* peek_ports, loop body: TcpListener::bind(addr_zeroport).await succeeds on
\* a port the operating system chooses, and ports[i] = local_addr().port()
PeekBind(range) ==
    /\ launch_pc = "peek_ports"
    /\ Len(ports) < NumPorts
    /\ \E p \in FreePorts(range, listening) :
          /\ listening' = listening \cup {p}
          /\ ports' = Append(ports, p)
    /\ launch_pc' = "end_of_iteration"
    /\ UNCHANGED <<appVars, trackerVars, argv, fs, launch_error, cmd, files, process,
                   muxVars, histVars>>

\* `listener` is a local of the loop body: it goes out of scope, and is
\* closed, at the end of every iteration
PeekEndOfIteration ==
    /\ launch_pc = "end_of_iteration"
    /\ listening' = listening \ {ports[Len(ports)]}
    /\ launch_pc' = "peek_ports"
    /\ UNCHANGED <<appVars, trackerVars, argv, fs, ports, launch_error, cmd, files,
                   process, muxVars, histVars>>

\* a launch that builds and spawns the command before it writes the file
AfterPeekPortsOkWithoutWrite == "command"

\* what new does with the ports: the ConnectionInfo, then fs.atomic_write
AfterPeekPortsOk == "atomic_write"

\* Ok(ports) after the fifth iteration; peek_ports(ip).await? succeeds
PeekPortsOk ==
    /\ launch_pc = "peek_ports"
    /\ Len(ports) = NumPorts
    /\ launch_pc' = AfterPeekPortsOk
    /\ UNCHANGED <<appVars, trackerVars, argv, fs, ports, listening, launch_error, cmd,
                   files, process, muxVars, histVars>>

\* how new goes on when peek_ports returned an error
AfterPeekPortsErrRetried == "peek_ports"

AfterPeekPortsErr == "failed"

\* bind(..).await? or local_addr()? fails in an iteration: peek_ports returns
\* the error, and `?` returns it from new
PeekPortsErr ==
    /\ launch_pc = "peek_ports"
    /\ Len(ports) < NumPorts
    /\ launch_pc' = AfterPeekPortsErr
    /\ launch_error' = LaunchError("ports", "bind", "")
    /\ DropLocals
    /\ UNCHANGED <<appVars, trackerVars, files, process, muxVars, histVars>>

\* fs.atomic_write(connection_path, content).await? succeeds
AtomicWriteOk ==
    /\ launch_pc = "atomic_write"
    /\ files' = files \cup {StorageOf(fs)}
    /\ launch_pc' = "command"
    /\ UNCHANGED <<appVars, trackerVars, argv, fs, ports, listening, launch_error, cmd, process, muxVars, histVars>>

AtomicWriteErr ==
    /\ launch_pc = "atomic_write"
    /\ Fail(LaunchError("write", "atomic_write", ""))
    /\ UNCHANGED <<appVars, trackerVars, files, process, muxVars, histVars>>

\* runtime_specification.command(&connection_path)?
Command ==
    /\ launch_pc = "command"
    /\ LET c == command(argv, ConnectionPath)
       IN IF c.ok
          THEN /\ cmd' = c
               /\ launch_pc' = "spawn"
               /\ UNCHANGED <<argv, fs, ports, listening, launch_error>>
          ELSE Fail(LaunchError("argv", c.error, c.kernelspec))
    /\ UNCHANGED <<appVars, trackerVars, files, process, muxVars, histVars>>

\* cmd.kill_on_drop(true).spawn().context(..)? succeeds
SpawnOk ==
    /\ launch_pc = "spawn"
    /\ process' = "alive"
    /\ launch_pc' = "connect_iopub"
    /\ UNCHANGED <<appVars, trackerVars, argv, fs, ports, listening, launch_error, cmd, files, muxVars, histVars>>

SpawnErr ==
    /\ launch_pc = "spawn"
    /\ Fail(LaunchError("spawn", "failed to start the kernel process", ""))
    /\ UNCHANGED <<appVars, trackerVars, files, process, muxVars, histVars>>

NextConnect(pc) ==
    CASE pc = "connect_iopub" -> "connect_shell"
      [] pc = "connect_shell" -> "connect_control"
      [] pc = "connect_control" -> "spawn_tasks"

\* create_client_*_connection().await? succeeds
ConnectOk ==
    /\ launch_pc \in {"connect_iopub", "connect_shell", "connect_control"}
    /\ launch_pc' = NextConnect(launch_pc)
    /\ UNCHANGED <<appVars, trackerVars, argv, fs, ports, listening, launch_error, cmd, files, process, muxVars, histVars>>

\* a connection fails: `?` returns, the local `process` is dropped, and a
\* Child built with kill_on_drop(true) is killed when dropped
ConnectErr ==
    /\ launch_pc \in {"connect_iopub", "connect_shell", "connect_control"}
    /\ Fail(LaunchError("connect", "connection", ""))
    /\ process' = DropChild(process)
    /\ UNCHANGED <<appVars, trackerVars, files, muxVars, histVars>>

\* the channels are created, the four tasks spawned, and the RunningKernel
\* returned with its messages_rx
SpawnTasks ==
    /\ launch_pc = "spawn_tasks"
    /\ task' = [t \in Tasks |-> IF t = "iopub" THEN "read" ELSE "recv"]
    /\ launch_pc' = "running"
    /\ DropLocals
    /\ UNCHANGED <<appVars, trackerVars, launch_error, files, process, hand, request_q, request_open,
                   sub_q, reply_q, sock_in, sock_out, inbound, histVars>>

\* the kernel process ends by itself
ProcessExit ==
    /\ process = "alive"
    /\ process' = "exited"
    /\ UNCHANGED <<appVars, trackerVars, argv, fs, ports, listening, launch_pc, launch_error, cmd, files, muxVars, histVars>>

\* ------------------------------------------------------- the callers
Running == launch_pc \in {"running", "dropping", "dropped"}

\* A clone of request_tx outlives the RunningKernel: a caller may still try
\* to submit after the drop.
Request(k) == [id |-> Len(submitted) + Len(rejected) + 1, kind |-> k, origin |-> "caller"]

\* request_tx.send(message) is accepted: the channel is open and request_rx alive
Submit(n, k) ==
    /\ Running
    /\ Len(submitted) + Len(rejected) < n
    /\ request_open /\ ~Ended("routing")
    /\ HasRoom(request_q)
    /\ request_q' = Append(request_q, Request(k))
    /\ submitted' = Append(submitted, Request(k))
    /\ UNCHANGED <<appVars, trackerVars, launchVars, task, hand, request_open, sub_q, reply_q, sock_in,
                   sock_out, inbound, rejected, routed, sent, send_failed,
                   read_failed, seen, published>>

\* request_tx.send(message) returns an error: the channel was closed, or
\* request_rx was dropped with the routing task
SubmitRejected(n, k) ==
    /\ Running
    /\ Len(submitted) + Len(rejected) < n
    /\ ~request_open \/ Ended("routing")
    /\ rejected' = Append(rejected, Request(k))
    /\ UNCHANGED <<appVars, trackerVars, launchVars, muxVars, submitted, routed, sent, send_failed,
                   read_failed, seen, published>>

\* ---------------------------------------------------- the routing task
\* a router whose match arm forgets ShutdownRequest
RouteWithoutShutdown(message) ==
    IF message.kind \in {"debug_request", "interrupt_request"}
    THEN "control"
    ELSE "shell"

\* match message.content { DebugRequest | InterruptRequest | ShutdownRequest
\*   => control_request_tx, _ => shell_request_tx }
Route(message) ==
    IF message.kind \in {"debug_request", "interrupt_request", "shutdown_request"}
    THEN "control"
    ELSE "shell"

\* A task that ends drops what it captured: the receivers it owns are closed
\* and the messages queued in them are discarded.
SubQueuesAfter(tk) == [c \in Channels |-> IF tk[c] \in Terminal THEN <<>> ELSE sub_q[c]]
RequestQueueAfter(tk, q) == IF tk["routing"] \in Terminal THEN <<>> ELSE q

\* a channel that hands the newest message out first
EnqueueFront(q, message) == <<message>> \o q

\* Sender::send puts the message at the back of the channel's queue
Enqueue(q, message) == Append(q, message)

\* request_rx.next().await yields a message
RouterRecv ==
    /\ task["routing"] = "recv"
    /\ request_q # <<>>
    /\ hand' = [hand EXCEPT !["routing"] = Head(request_q)]
    /\ request_q' = Tail(request_q)
    /\ task' = [task EXCEPT !["routing"] = "send"]
    /\ UNCHANGED <<appVars, trackerVars, launchVars, request_open, sub_q, reply_q, sock_in, sock_out,
                   inbound, histVars>>

\* request_rx.next().await yields None: the channel is closed and drained;
\* the loop ends and the task returns Ok(())
RouterEnd ==
    /\ task["routing"] = "recv"
    /\ request_q = <<>>
    /\ ~request_open
    /\ task' = [task EXCEPT !["routing"] = "ok"]
    /\ UNCHANGED <<appVars, trackerVars, launchVars, hand, request_q, request_open, sub_q, reply_q,
                   sock_in, sock_out, inbound, histVars>>

\* control_request_tx.send(message).await / shell_request_tx.send(message).await
\* completes: the receiver is alive and the channel has room
RouterSend ==
    /\ task["routing"] = "send"
    /\ LET c == Route(hand["routing"])
       IN /\ ~Ended(c)
          /\ HasRoom(sub_q[c])
          /\ sub_q' = [sub_q EXCEPT ![c] = Enqueue(@, hand["routing"])]
          /\ routed' = [routed EXCEPT ![c] = Append(@, hand["routing"])]
    /\ hand' = [hand EXCEPT !["routing"] = NoMsg]
    /\ task' = [task EXCEPT !["routing"] = "recv"]
    /\ UNCHANGED <<appVars, trackerVars, launchVars, request_q, request_open, reply_q, sock_in, sock_out,
                   inbound, submitted, rejected, sent, send_failed, read_failed,
                   seen, published>>

\* the send returns an error because the worker that owned the receiver has
\* ended: `?` ends the routing task with that error
RouterSendErr ==
    /\ task["routing"] = "send"
    /\ Ended(Route(hand["routing"]))
    /\ task' = [task EXCEPT !["routing"] = "err"]
    /\ request_q' = RequestQueueAfter(task', request_q)
    /\ UNCHANGED <<appVars, trackerVars, launchVars, hand, request_open, sub_q, reply_q, sock_in,
                   sock_out, inbound, histVars>>

\* ------------------------------------------- the shell and control tasks
\* sub-queues that are closed as soon as the request endpoint is
SubQueueClosedEarly == ~request_open

\* The senders of a sub-queue live in the routing task.
SubQueueClosed == Ended("routing")

\* a worker that takes the next request without awaiting the reply
AfterSocketSendPipelined == "recv"

\* where the worker goes after socket.send(message).await.ok()
AfterSocketSend == "read"

\* *_request_rx.next().await yields a message
WorkerRecv(c) ==
    /\ task[c] = "recv"
    /\ sub_q[c] # <<>>
    /\ hand' = [hand EXCEPT ![c] = Head(sub_q[c])]
    /\ sub_q' = [sub_q EXCEPT ![c] = Tail(@)]
    /\ task' = [task EXCEPT ![c] = "send"]
    /\ UNCHANGED <<appVars, trackerVars, launchVars, request_q, request_open, reply_q, sock_in, sock_out,
                   inbound, histVars>>

\* *_request_rx.next().await yields None: the loop ends, the task returns Ok(())
WorkerEnd(c) ==
    /\ task[c] = "recv"
    /\ sub_q[c] = <<>>
    /\ SubQueueClosed
    /\ task' = [task EXCEPT ![c] = "ok"]
    /\ UNCHANGED <<appVars, trackerVars, launchVars, hand, request_q, request_open, sub_q, reply_q,
                   sock_in, sock_out, inbound, histVars>>

\* socket.send(message).await succeeds: the kernel receives the request
WorkerSocketSend(c) ==
    /\ task[c] = "send"
    /\ sock_in' = [sock_in EXCEPT ![c] = Append(@, hand[c])]
    /\ sent' = [sent EXCEPT ![c] = Append(@, hand[c])]
    /\ hand' = [hand EXCEPT ![c] = NoMsg]
    /\ task' = [task EXCEPT ![c] = AfterSocketSend]
    /\ UNCHANGED <<appVars, trackerVars, launchVars, request_q, request_open, sub_q, reply_q, sock_out,
                   inbound, submitted, rejected, routed, send_failed, read_failed,
                   seen, published>>

\* socket.send(message).await fails: .ok() discards the error and the request
WorkerSocketSendErr(c) ==
    /\ task[c] = "send"
    /\ send_failed' = [send_failed EXCEPT ![c] = Append(@, hand[c])]
    /\ hand' = [hand EXCEPT ![c] = NoMsg]
    /\ task' = [task EXCEPT ![c] = AfterSocketSend]
    /\ UNCHANGED <<appVars, trackerVars, launchVars, request_q, request_open, sub_q, reply_q, sock_in,
                   sock_out, inbound, submitted, rejected, routed, sent,
                   read_failed, seen, published>>

\* a worker that reads the other channel's socket
ReplySocketSwapped(c) == IF c = "shell" THEN "control" ELSE "shell"

\* the socket a worker reads its reply from: shell_task reads shell_socket,
\* control_task reads control_socket
ReplySocket(c) == c

\* socket.read().await yields the next message the kernel sent on the socket
WorkerRead(c) ==
    /\ task[c] = "read"
    /\ sock_out[ReplySocket(c)] # <<>>
    /\ hand' = [hand EXCEPT ![c] = Head(sock_out[ReplySocket(c)])]
    /\ sock_out' = [sock_out EXCEPT ![ReplySocket(c)] = Tail(@)]
    /\ seen' = [seen EXCEPT ![c] = Append(@, Head(sock_out[ReplySocket(c)]))]
    /\ task' = [task EXCEPT ![c] = "forward"]
    /\ UNCHANGED <<appVars, trackerVars, launchVars, request_q, request_open, sub_q, reply_q, sock_in,
                   inbound, submitted, rejected, routed, sent, send_failed,
                   read_failed, published>>

\* socket.read().await fails: `?` ends the task with the error
WorkerReadErr(c) ==
    /\ task[c] = "read"
    /\ task' = [task EXCEPT ![c] = "err"]
    /\ sub_q' = SubQueuesAfter(task')
    /\ read_failed' = read_failed \cup {c}
    /\ UNCHANGED <<appVars, trackerVars, launchVars, hand, request_q, request_open, reply_q, sock_in,
                   sock_out, inbound, submitted, rejected, routed, sent,
                   send_failed, seen, published>>

\* *_reply_tx.send(reply).await completes
WorkerForward(c) ==
    /\ task[c] = "forward"
    /\ HasRoom(reply_q[c])
    /\ reply_q' = [reply_q EXCEPT ![c] = Append(@, hand[c])]
    /\ hand' = [hand EXCEPT ![c] = NoMsg]
    /\ task' = [task EXCEPT ![c] = "recv"]
    /\ UNCHANGED <<appVars, trackerVars, launchVars, request_q, request_open, sub_q, sock_in, sock_out,
                   inbound, histVars>>

\* ------------------------------------------------------- the iopub task
\* how the task ends when iopub_socket.read() fails: `while let Ok(..)` leaves
\* the loop and the block returns anyhow::Ok(())
IopubAfterReadErr == "ok"

\* iopub_socket.read().await yields a message
IopubRead ==
    /\ task["iopub"] = "read"
    /\ sock_out["iopub"] # <<>>
    /\ hand' = [hand EXCEPT !["iopub"] = Head(sock_out["iopub"])]
    /\ sock_out' = [sock_out EXCEPT !["iopub"] = Tail(@)]
    /\ seen' = [seen EXCEPT !["iopub"] = Append(@, Head(sock_out["iopub"]))]
    /\ task' = [task EXCEPT !["iopub"] = "forward"]
    /\ UNCHANGED <<appVars, trackerVars, launchVars, request_q, request_open, sub_q, reply_q, sock_in,
                   inbound, submitted, rejected, routed, sent, send_failed,
                   read_failed, published>>

\* iopub_socket.read().await fails
IopubReadErr ==
    /\ task["iopub"] = "read"
    /\ task' = [task EXCEPT !["iopub"] = IopubAfterReadErr]
    /\ read_failed' = read_failed \cup {"iopub"}
    /\ UNCHANGED <<appVars, trackerVars, launchVars, hand, request_q, request_open, sub_q, reply_q,
                   sock_in, sock_out, inbound, submitted, rejected, routed, sent,
                   send_failed, seen, published>>

\* a relay that rewrites the message it forwards
RelayedRewritten(message) == [message EXCEPT !.kind = "relayed"]

\* what iopub.send(message) puts in the channel
Relayed(message) == message

\* iopub.send(message).await completes
IopubForward ==
    /\ task["iopub"] = "forward"
    /\ HasRoom(reply_q["iopub"])
    /\ reply_q' = [reply_q EXCEPT !["iopub"] = Append(@, Relayed(hand["iopub"]))]
    /\ hand' = [hand EXCEPT !["iopub"] = NoMsg]
    /\ task' = [task EXCEPT !["iopub"] = "read"]
    /\ UNCHANGED <<appVars, trackerVars, launchVars, request_q, request_open, sub_q, sock_in, sock_out,
                   inbound, histVars>>

\* --------------------------------------------------- the kernel process
\* The kernel answers the oldest request it holds on a socket, on that socket.
Reply(request, c) == [id |-> request.id, kind |-> request.kind, origin |-> c]

KernelReply(c) ==
    /\ process = "alive"
    /\ sock_in[c] # <<>>
    /\ sock_in' = [sock_in EXCEPT ![c] = Tail(@)]
    /\ sock_out' = [sock_out EXCEPT ![c] = Append(@, Reply(Head(sock_in[c]), c))]
    /\ UNCHANGED <<appVars, trackerVars, launchVars, task, hand, request_q, request_open, sub_q, reply_q,
                   inbound, histVars>>

\* The kernel publishes a status or output message on iopub.
KernelPublish(n) ==
    /\ process = "alive"
    /\ Running
    /\ published < n
    /\ published' = published + 1
    /\ sock_out' = [sock_out EXCEPT !["iopub"] =
                        Append(@, [id |-> published + 1, kind |-> "status",
                                   origin |-> "iopub"])]
    /\ UNCHANGED <<appVars, trackerVars, launchVars, task, hand, request_q, request_open, sub_q, reply_q,
                   sock_in, inbound, submitted, rejected, routed, sent,
                   send_failed, read_failed, seen>>

\* ------------------------------------------- the reader of messages_rx
\* SelectAll yields the next message of any of the three receivers pushed
\* into it; each receiver yields its messages in the order they were sent.
Consume(s) ==
    /\ reply_q[s] # <<>>
    /\ inbound' = Append(inbound, [src |-> s, msg |-> Head(reply_q[s])])
    /\ reply_q' = [reply_q EXCEPT ![s] = Tail(@)]
    /\ UNCHANGED <<appVars, trackerVars, launchVars, task, hand, request_q, request_open, sub_q, sock_in,
                   sock_out, histVars>>

\* ------------------------------------------------ Drop for RunningKernel
\* std::fs::remove_file(&self.connection_path).ok() removes the file from
\* the disk, whichever Fs wrote it
RemoveFile(fset) == fset \ {"disk"}

\* the body of drop(): remove_file, then request_tx.close_channel()
DropBody ==
    /\ launch_pc = "running"
    /\ files' = RemoveFile(files)
    /\ request_open' = FALSE
    /\ launch_pc' = "dropping"
    /\ UNCHANGED <<appVars, trackerVars, argv, fs, ports, listening, launch_error, cmd, process, task, hand, request_q,
                   sub_q, reply_q, sock_in, sock_out, inbound, histVars>>

\* what dropping a Task does to a task in state st: it is cancelled, unless it
\* has ended already
DropTask(st) == IF st \in Terminal THEN st ELSE "cancelled"

\* then the fields are dropped: the Child and the four Tasks
DropFields ==
    /\ launch_pc = "dropping"
    /\ process' = DropChild(process)
    /\ task' = [t \in Tasks |-> DropTask(task[t])]
    /\ sub_q' = SubQueuesAfter(task')
    /\ request_q' = RequestQueueAfter(task', request_q)
    /\ launch_pc' = "dropped"
    /\ UNCHANGED <<appVars, trackerVars, argv, fs, ports, listening, launch_error, cmd, files, hand, request_open, reply_q,
                   sock_in, sock_out, inbound, histVars>>

\* ------------------------------------------------------------------ Next
\* The life of one kernel, from RunningKernel::new to its drop.
Next ==
    \/ PeekBind(LaunchPortRange)
    \/ PeekEndOfIteration \/ PeekPortsOk \/ PeekPortsErr
    \/ AtomicWriteOk \/ AtomicWriteErr
    \/ Command
    \/ SpawnOk \/ SpawnErr
    \/ ConnectOk \/ ConnectErr
    \/ SpawnTasks
    \/ ProcessExit
    \/ \E k \in MuxKinds : Submit(LifeRequests, k)
    \/ \E k \in MuxKinds : SubmitRejected(LifeRequests, k)
    \/ RouterRecv \/ RouterEnd \/ RouterSend \/ RouterSendErr
    \/ \E c \in Channels : WorkerRecv(c)
    \/ \E c \in Channels : WorkerEnd(c)
    \/ \E c \in Channels : WorkerSocketSend(c)
    \/ \E c \in Channels : WorkerSocketSendErr(c)
    \/ \E c \in Channels : WorkerRead(c)
    \/ \E c \in Channels : WorkerReadErr(c)
    \/ \E c \in Channels : WorkerForward(c)
    \/ IopubRead \/ IopubReadErr \/ IopubForward
    \/ \E c \in Channels : KernelReply(c)
    \/ KernelPublish(LifeIopub)
    \/ \E s \in Sources : Consume(s)
    \/ DropBody \/ DropFields

Spec == Init /\ [][Next]_vars

\* ------------------------------------------------------- the launch
\* RunningKernel::new from its call to its result, and the drop of the
\* RunningKernel it returned; nobody submits a request.
NextLaunch ==
    \/ PeekBind(LaunchPortRange)
    \/ PeekEndOfIteration \/ PeekPortsOk \/ PeekPortsErr
    \/ AtomicWriteOk \/ AtomicWriteErr
    \/ Command
    \/ SpawnOk \/ SpawnErr
    \/ ConnectOk \/ ConnectErr
    \/ SpawnTasks
    \/ ProcessExit
    \/ DropBody \/ DropFields

SpecLaunch == Init /\ [][NextLaunch]_vars

\* The launch of one valid kernelspec, with the whole range of ports.
InitPorts ==
    /\ Init
    /\ argv = <<"python3", Placeholder>>
    /\ fs = "RealFs"

NextPorts ==
    \/ PeekBind(PortRange)
    \/ PeekEndOfIteration \/ PeekPortsOk \/ PeekPortsErr
    \/ AtomicWriteOk \/ AtomicWriteErr
    \/ Command
    \/ SpawnOk \/ SpawnErr
    \/ ConnectOk \/ ConnectErr
    \/ SpawnTasks

SpecPorts == InitPorts /\ [][NextPorts]_vars

\* ---------------------------------------------------------- the Kernel
\* enum Kernel: RunningKernel carries the execution_state and the kernel_info
\* of its RunningKernel; the other variants carry nothing the model follows.
Variants == {"StartingKernel", "RunningKernel", "ErroredLaunch", "ShuttingDown",
             "Shutdown"}
ExecutionStates == {"Idle", "Busy"}
KernelInfos == {"info_a", "info_b"}
Other(variant) ==
    [variant |-> variant, execution_state |-> "none", kernel_info |-> "none"]
\* a RunningKernel that is idle from the start
NewRunningKernelIdle ==
    [variant |-> "RunningKernel", execution_state |-> "Idle", kernel_info |-> "None"]
\* the RunningKernel that new returns: Busy, no kernel_info
NewRunningKernel ==
    [variant |-> "RunningKernel", execution_state |-> "Busy", kernel_info |-> "None"]

\* a dot that shows every running kernel as Success
dotIgnoringStatus(k) ==
    CASE k.variant = "RunningKernel" -> "Success"
      [] k.variant = "StartingKernel" -> "Modified"
      [] k.variant = "ErroredLaunch" -> "Error"
      [] k.variant = "ShuttingDown" -> "Modified"
      [] k.variant = "Shutdown" -> "Disabled"

\* Kernel::dot: the colour of the Indicator
dot(k) ==
    CASE k.variant = "RunningKernel" ->
             (CASE k.execution_state = "Idle" -> "Success"
                [] k.execution_state = "Busy" -> "Modified")
      [] k.variant = "StartingKernel" -> "Modified"
      [] k.variant = "ErroredLaunch" -> "Error"
      [] k.variant = "ShuttingDown" -> "Modified"
      [] k.variant = "Shutdown" -> "Disabled"

\* a setter that takes a status from a kernel that was shut down as a sign
\* that it is starting again
set_execution_state_reviving(k, status) ==
    IF k.variant = "RunningKernel" THEN [k EXCEPT !.execution_state = status]
    ELSE IF k.variant = "Shutdown" THEN Other("StartingKernel")
    ELSE k

\* a setter that rebuilds the running state from the status alone
set_execution_state_resetting(k, status) ==
    IF k.variant = "RunningKernel"
    THEN [k EXCEPT !.execution_state = status, !.kernel_info = "None"]
    ELSE k

\* Kernel::set_execution_state
set_execution_state(k, status) ==
    IF k.variant = "RunningKernel" THEN [k EXCEPT !.execution_state = status]
    ELSE k

\* a setter that stores the reply in whatever variant the Kernel is
set_kernel_info_any_variant(k, kernel_info) ==
    [k EXCEPT !.kernel_info = kernel_info]

\* Kernel::set_kernel_info
set_kernel_info(k, kernel_info) ==
    IF k.variant = "RunningKernel" THEN [k EXCEPT !.kernel_info = kernel_info]
    ELSE k

\* a status message arrives and the session calls set_execution_state
SetExecutionState ==
    /\ Len(updates) < MaxUpdates
    /\ \E status \in ExecutionStates :
          /\ kernel' = set_execution_state(kernel, status)
          /\ updates' = Append(updates, [op |-> "status", value |-> status,
                                         on |-> kernel.variant])
    /\ UNCHANGED <<appVars, indicator, launchVars, muxVars, histVars>>

\* a kernel-info reply arrives and the session calls set_kernel_info
SetKernelInfo ==
    /\ Len(updates) < MaxUpdates
    /\ \E kernel_info \in KernelInfos :
          /\ kernel' = set_kernel_info(kernel, kernel_info)
          /\ updates' = Append(updates, [op |-> "kernel_info", value |-> kernel_info,
                                         on |-> kernel.variant])
    /\ UNCHANGED <<appVars, indicator, launchVars, muxVars, histVars>>

\* the view calls dot(): &mut self, and no arm assigns to it
Dot ==
    /\ indicator' = [color |-> dot(kernel), variant |-> kernel.variant,
                     execution_state |-> kernel.execution_state]
    /\ UNCHANGED <<appVars, kernel, updates, launchVars, muxVars, histVars>>

\* The session replaces its Kernel as the launch and the shutdown go on.
\* StartingKernel -> RunningKernel: the launch returned a RunningKernel
LaunchSucceeded ==
    /\ kernel.variant = "StartingKernel"
    /\ kernel' = NewRunningKernel
    /\ UNCHANGED <<appVars, updates, indicator, launchVars, muxVars, histVars>>

\* StartingKernel -> ErroredLaunch: the launch returned an error
LaunchFailed ==
    /\ kernel.variant = "StartingKernel"
    /\ kernel' = Other("ErroredLaunch")
    /\ UNCHANGED <<appVars, updates, indicator, launchVars, muxVars, histVars>>

\* RunningKernel -> ShuttingDown
BeginShutdown ==
    /\ kernel.variant = "RunningKernel"
    /\ kernel' = Other("ShuttingDown")
    /\ UNCHANGED <<appVars, updates, indicator, launchVars, muxVars, histVars>>

\* ShuttingDown -> Shutdown
FinishShutdown ==
    /\ kernel.variant = "ShuttingDown"
    /\ kernel' = Other("Shutdown")
    /\ UNCHANGED <<appVars, updates, indicator, launchVars, muxVars, histVars>>

\* The Kernel of one session: its transitions, the status and kernel-info
\* updates in any state, and the indicator.
NextKernel ==
    \/ LaunchSucceeded \/ LaunchFailed
    \/ BeginShutdown \/ FinishShutdown
    \/ SetExecutionState \/ SetKernelInfo
    \/ Dot

SpecKernel == InitPorts /\ [][NextKernel]_vars

\* ------------------------------------------------- a running kernel
\* The state in which a successful RunningKernel::new leaves the kernel: the
\* descriptor written through RealFs, the process alive, the tasks spawned.
InitRunning ==
    /\ argv = <<>>
    /\ fs = "dropped"
    /\ ports = <<>>
    /\ listening = {}
    /\ launch_pc = "running"
    /\ launch_error = NoError
    /\ cmd = NoCmd
    /\ files = {"disk"}
    /\ process = "alive"
    /\ task = [t \in Tasks |-> IF t = "iopub" THEN "read" ELSE "recv"]
    /\ hand = [t \in Tasks |-> NoMsg]
    /\ request_q = <<>>
    /\ request_open = TRUE
    /\ sub_q = [c \in Channels |-> <<>>]
    /\ reply_q = [s \in Sources |-> <<>>]
    /\ sock_in = [c \in Channels |-> <<>>]
    /\ sock_out = [s \in Sources |-> <<>>]
    /\ inbound = <<>>
    /\ InitHist
    /\ InitTracker
    /\ InitApp

\* The request leg of a running kernel: callers, router, workers, kernel
\* replies and the reader of the merged stream, with every failure and the
\* drop of the kernel.
NextMux ==
    \/ ProcessExit
    \/ \E k \in MuxKinds : Submit(MaxRequests, k)
    \/ \E k \in MuxKinds : SubmitRejected(MaxRequests, k)
    \/ RouterRecv \/ RouterEnd \/ RouterSend \/ RouterSendErr
    \/ \E c \in Channels : WorkerRecv(c)
    \/ \E c \in Channels : WorkerEnd(c)
    \/ \E c \in Channels : WorkerSocketSend(c)
    \/ \E c \in Channels : WorkerSocketSendErr(c)
    \/ \E c \in Channels : WorkerRead(c)
    \/ \E c \in Channels : WorkerReadErr(c)
    \/ \E c \in Channels : WorkerForward(c)
    \/ \E c \in Channels : KernelReply(c)
    \/ \E s \in Sources : Consume(s)
    \/ DropBody \/ DropFields

SpecMux == InitRunning /\ [][NextMux]_vars

\* A kernel that nobody drops and whose process stays alive, with requests
\* of every kind and every socket failure.
NextRouting ==
    \/ \E k \in Kinds : Submit(RoutingRequests, k)
    \/ \E k \in Kinds : SubmitRejected(RoutingRequests, k)
    \/ RouterRecv \/ RouterSend \/ RouterSendErr
    \/ \E c \in Channels : WorkerRecv(c)
    \/ \E c \in Channels : WorkerEnd(c)
    \/ \E c \in Channels : WorkerSocketSend(c)
    \/ \E c \in Channels : WorkerSocketSendErr(c)
    \/ \E c \in Channels : WorkerRead(c)
    \/ \E c \in Channels : WorkerReadErr(c)
    \/ \E c \in Channels : WorkerForward(c)
    \/ \E c \in Channels : KernelReply(c)
    \/ \E s \in Sources : Consume(s)

SpecRouting == InitRunning /\ [][NextRouting]_vars

\* The three legs of the merged stream of a running kernel: the broadcast
\* relay beside the request leg, with every failure and the drop.
NextRelay ==
    \/ ProcessExit
    \/ \E k \in MuxKinds : Submit(RelayRequests, k)
    \/ \E k \in MuxKinds : SubmitRejected(RelayRequests, k)
    \/ RouterRecv \/ RouterEnd \/ RouterSend
    \/ \E c \in Channels : WorkerRecv(c)
    \/ \E c \in Channels : WorkerEnd(c)
    \/ \E c \in Channels : WorkerSocketSend(c)
    \/ \E c \in Channels : WorkerSocketSendErr(c)
    \/ \E c \in Channels : WorkerRead(c)
    \/ \E c \in Channels : WorkerReadErr(c)
    \/ \E c \in Channels : WorkerForward(c)
    \/ IopubRead \/ IopubReadErr \/ IopubForward
    \/ \E c \in Channels : KernelReply(c)
    \/ KernelPublish(RelayIopub)
    \/ \E s \in Sources : Consume(s)
    \/ DropBody \/ DropFields

SpecRelay == InitRunning /\ [][NextRelay]_vars

\* --------------------------------------------- runs without failures
\* The executor runs every task that can take a step, the reader of the
\* merged stream keeps reading, and the kernel answers every request it holds.
TasksFair ==
    /\ WF_vars(RouterRecv)
    /\ WF_vars(RouterSend)
    /\ \A c \in Channels :
        /\ WF_vars(WorkerRecv(c))
        /\ WF_vars(WorkerSocketSend(c))
        /\ WF_vars(WorkerRead(c))
        /\ WF_vars(WorkerForward(c))
    /\ \A s \in Sources : WF_vars(Consume(s))

\* A running kernel busy with a long execution: it answers on the control
\* socket and never on the shell socket. No socket fails, nobody drops the
\* kernel.
NextNoShellReply ==
    \/ \E k \in MuxKinds : Submit(FairRequests, k)
    \/ RouterRecv \/ RouterSend
    \/ \E c \in Channels : WorkerRecv(c)
    \/ \E c \in Channels : WorkerSocketSend(c)
    \/ \E c \in Channels : WorkerRead(c)
    \/ \E c \in Channels : WorkerForward(c)
    \/ KernelReply("control")
    \/ \E s \in Sources : Consume(s)

SpecNoShellReply ==
    /\ InitRunning
    /\ [][NextNoShellReply]_vars
    /\ TasksFair
    /\ WF_vars(KernelReply("control"))

\* A running kernel that answers every request, on sockets whose sends may
\* fail. No read fails, nobody drops the kernel.
NextSendFailures ==
    \/ \E k \in MuxKinds : Submit(FairRequests, k)
    \/ RouterRecv \/ RouterSend
    \/ \E c \in Channels : WorkerRecv(c)
    \/ \E c \in Channels : WorkerSocketSend(c)
    \/ \E c \in Channels : WorkerSocketSendErr(c)
    \/ \E c \in Channels : WorkerRead(c)
    \/ \E c \in Channels : WorkerForward(c)
    \/ \E c \in Channels : KernelReply(c)
    \/ \E s \in Sources : Consume(s)

SpecSendFailures ==
    /\ InitRunning
    /\ [][NextSendFailures]_vars
    /\ TasksFair
    /\ \A c \in Channels : WF_vars(KernelReply(c))

\* ------------------------------------------- discovery of the kernelspecs
\* What a kernels directory can hold: a plain file, a directory without
\* kernel.json, a directory whose kernel.json does not parse, a directory
\* whose kernel.json parses (with its language), and an entry the listing
\* fails to read.
Languages == {"python", "Python", "typescript"}
EntryKinds == {"file", "dir_no_json", "dir_malformed", "dir_valid", "entry_err"}
Entries ==
    [kind : EntryKinds \ {"dir_valid"}, language : {"none"}]
        \cup [kind : {"dir_valid"}, language : {"python", "typescript"}]
Listings == UNION {[1..n -> Entries] : n \in 0..MaxEntries}
Roots == [listable : {FALSE}, entries : {<<>>}]
             \cup [listable : {TRUE}, entries : Listings]

\* Fs::is_dir, Fs::load of the entry's kernel.json, serde_json::from_str.
is_dir(entry) == entry.kind \in {"dir_no_json", "dir_malformed", "dir_valid"}
load_ok(entry) == entry.kind \in {"dir_malformed", "dir_valid"}
from_str_ok(entry) == entry.kind = "dir_valid"

RuntimeSpecification(r, i, entry) ==
    [path |-> <<DataDirs[r], i>>, name |-> i, language |-> entry.language]

\* The entries of a listing have a file name, so the first bail is not taken.
read_kernelspec_at(r, i, entry) ==
    IF ~is_dir(entry) THEN [ok |-> FALSE, spec |-> NoSession]
    ELSE IF ~load_ok(entry) THEN [ok |-> FALSE, spec |-> NoSession]
    ELSE IF ~from_str_ok(entry) THEN [ok |-> FALSE, spec |-> NoSession]
    ELSE [ok |-> TRUE, spec |-> RuntimeSpecification(r, i, entry)]

\* The loop of read_kernels_dir from entry i on, valid_kernelspecs so far.
RECURSIVE scan_entries(_, _, _, _)
scan_entries(r, entries, i, valid_kernelspecs) ==
    IF i > Len(entries) THEN valid_kernelspecs
    ELSE IF entries[i].kind = "entry_err"
        THEN scan_entries(r, entries, i + 1, valid_kernelspecs)
    ELSE IF is_dir(entries[i]) /\ read_kernelspec_at(r, i, entries[i]).ok
        THEN scan_entries(r, entries, i + 1,
                 Append(valid_kernelspecs, read_kernelspec_at(r, i, entries[i]).spec))
    ELSE scan_entries(r, entries, i + 1, valid_kernelspecs)

read_kernels_dirFailingOnEntry(r, root) ==
    IF ~root.listable \/ \E i \in 1..Len(root.entries) :
                            root.entries[i].kind \in {"entry_err", "dir_malformed"}
    THEN [done |-> TRUE, ok |-> FALSE, specs |-> <<>>]
    ELSE [done |-> TRUE, ok |-> TRUE,
          specs |-> scan_entries(r, root.entries, 1, <<>>)]
read_kernels_dir(r, root) ==
    IF ~root.listable THEN [done |-> TRUE, ok |-> FALSE, specs |-> <<>>]
    ELSE [done |-> TRUE, ok |-> TRUE,
          specs |-> scan_entries(r, root.entries, 1, <<>>)]

\* filter_map(Result::ok) and flatten, over the results from root r on.
RECURSIVE flatten_ok(_, _)
flatten_ok(results, r) ==
    IF r > Len(DataDirs) THEN <<>>
    ELSE IF results[r].ok THEN results[r].specs \o flatten_ok(results, r + 1)
    ELSE flatten_ok(results, r + 1)

get_runtime_specificationsTry(results) ==
    IF \E r \in 1..Len(DataDirs) : ~results[r].ok
    THEN [done |-> TRUE, ok |-> FALSE, specs |-> <<>>]
    ELSE [done |-> TRUE, ok |-> TRUE, specs |-> flatten_ok(results, 1)]
get_runtime_specifications(results) ==
    [done |-> TRUE, ok |-> TRUE, specs |-> flatten_ok(results, 1)]

\* One of the futures get_runtime_specifications joins.
ReadKernelsDir(r) ==
    /\ ~dir_results[r].done
    /\ dir_results' = [dir_results EXCEPT ![r] = read_kernels_dir(r, roots[r])]
    /\ UNCHANGED <<roots, discovered, panelVars, vimVars, runtimeVars>>

\* join_all has every result: get_runtime_specifications returns.
GetRuntimeSpecifications ==
    /\ \A r \in 1..Len(DataDirs) : dir_results[r].done
    /\ ~discovered.done
    /\ discovered' = get_runtime_specifications(dir_results)
    /\ UNCHANGED <<roots, dir_results, panelVars, vimVars, runtimeVars>>

InitKernelsDirs ==
    /\ InitLaunch /\ InitMux /\ InitHist /\ InitTracker /\ InitPanel /\ InitVim
    /\ argv = <<"python3", Placeholder>>
    /\ fs = "RealFs"
    /\ enabled = TRUE
    /\ roots \in [1..Len(DataDirs) -> Roots]
    /\ dir_results = [r \in 1..Len(DataDirs) |-> NotScanned]
    /\ discovered = NotScanned

NextDiscovery ==
    \/ \E r \in 1..Len(DataDirs) : ReadKernelsDir(r)
    \/ GetRuntimeSpecifications

SpecDiscovery == InitKernelsDirs /\ [][NextDiscovery]_vars

\* ---------------------------------------------------------- RuntimePanel
\* What snippet() returns for the selection: none (markdown, no language, two
\* languages) or the language of the selection.
Snippets == {"none"} \cup Languages

\* The lists kernel_specifications(fs) can resolve to: the specification at
\* position i is the one named i. No kernel of the lists is for typescript.
ListedLanguages == {"python", "Python"}
PanelSpecs(languages) ==
    [i \in 1..Len(languages) |->
        [path |-> <<DataDirs[1], i>>, name |-> i, language |-> languages[i]]]
SpecLists ==
    {PanelSpecs(languages) :
        languages \in UNION {[1..n -> ListedLanguages] : n \in 0..MaxSpecs}}

\* iter().find(..) from position i on.
RECURSIVE find(_, _, _)
find(specs, i, language_name) ==
    IF i > Len(specs) THEN None
    ELSE IF specs[i].language = language_name THEN Some(specs[i])
    ELSE find(specs, i + 1, language_name)

kernelspecIgnoringCase(specs, language_name) ==
    LET matches == {i \in 1..Len(specs) :
                       \/ specs[i].language = language_name
                       \/ {specs[i].language, language_name} = {"python", "Python"}}
    IN  IF matches = {} THEN None
        ELSE Some(specs[CHOOSE i \in matches : \A j \in matches : i <= j])
kernelspec(specs, language_name) == find(specs, 1, language_name)

\* What a call of run does and returns: the result, the sessions after it,
\* and the session execute was called on.
Ran(editor, snippet, result, lookup, sess, created, executed_on) ==
    [sessions |-> sess,
     log |-> [editor |-> editor, snippet |-> snippet, result |-> result,
              lookup |-> lookup, created |-> created,
              executed_on |-> executed_on]]

\* The descriptor path of the kernel launched for an entity:
\* runtime_dir().join(format!("kernel-zed-{entity_id}.json")).
connection_path(entity_id) == <<"kernel-zed-", entity_id, ".json">>

\* an insert that replaces the session of the editor
or_insert_withReplacing(sess, editor, kernel_specification) ==
    [sess EXCEPT ![editor] = kernel_specification]
\* entry(entity_id).or_insert_with(Session::new(.., kernel_specification)).
or_insert_with(sess, editor, kernel_specification) ==
    IF sess[editor] = NoSession
    THEN [sess EXCEPT ![editor] = kernel_specification]
    ELSE sess

runFallingBack(is_enabled, specs, sess, editor, snippet) ==
    IF ~is_enabled THEN Ran(editor, snippet, "ok", None, sess, FALSE, NoSession)
    ELSE IF snippet = "none"
        THEN Ran(editor, snippet, "ok", None, sess, FALSE, NoSession)
    ELSE IF ~kernelspec(specs, snippet).found /\ specs = <<>>
        THEN Ran(editor, snippet, "no_kernel", None, sess, FALSE, NoSession)
    ELSE IF ~kernelspec(specs, snippet).found
        THEN Ran(editor, snippet, "ok", None,
                 or_insert_with(sess, editor, specs[1]),
                 sess[editor] = NoSession,
                 or_insert_with(sess, editor, specs[1])[editor])
    ELSE Ran(editor, snippet, "ok", kernelspec(specs, snippet),
             or_insert_with(sess, editor, kernelspec(specs, snippet).spec),
             sess[editor] = NoSession,
             or_insert_with(sess, editor, kernelspec(specs, snippet).spec)[editor])
run(is_enabled, specs, sess, editor, snippet) ==
    IF ~is_enabled THEN Ran(editor, snippet, "ok", None, sess, FALSE, NoSession)
    ELSE IF snippet = "none"
        THEN Ran(editor, snippet, "ok", None, sess, FALSE, NoSession)
    ELSE IF ~kernelspec(specs, snippet).found
        THEN Ran(editor, snippet, "no_kernel", None, sess, FALSE, NoSession)
    ELSE Ran(editor, snippet, "ok", kernelspec(specs, snippet),
             or_insert_with(sess, editor, kernelspec(specs, snippet).spec),
             sess[editor] = NoSession,
             or_insert_with(sess, editor, kernelspec(specs, snippet).spec)[editor])

\* RuntimePanel::run on an editor whose selection gives the snippet.
Run(editor, snippet) ==
    /\ runs < MaxRuns
    /\ runs' = runs + 1
    /\ sessions' = run(enabled, kernel_specifications, sessions, editor, snippet).sessions
    /\ last_run' = run(enabled, kernel_specifications, sessions, editor, snippet).log
    /\ UNCHANGED <<enabled, kernel_specifications, discoveryVars, vimVars, runtimeVars>>

\* The task of refresh_kernelspecs resolves with a list.
RefreshKernelspecs(specs) ==
    /\ kernel_specifications' = specs
    /\ UNCHANGED <<enabled, sessions, runs, last_run, discoveryVars, vimVars,
                   runtimeVars>>

\* The settings change.
SetEnabled(is_enabled) ==
    /\ enabled # is_enabled
    /\ enabled' = is_enabled
    /\ UNCHANGED <<kernel_specifications, sessions, runs, last_run,
                   discoveryVars, vimVars, runtimeVars>>

InitPanelOpen ==
    /\ InitLaunch /\ InitMux /\ InitHist /\ InitTracker
    /\ InitDiscovery /\ InitPanel /\ InitVim
    /\ argv = <<"python3", Placeholder>>
    /\ fs = "RealFs"

NextPanel ==
    \/ \E editor \in Editors, snippet \in Snippets : Run(editor, snippet)
    \/ \E specs \in SpecLists : RefreshKernelspecs(specs)
    \/ \E is_enabled \in BOOLEAN : SetEnabled(is_enabled)

SpecPanel == InitPanelOpen /\ [][NextPanel]_vars

\* ------------------------------------------------- vim: record and replay
\* The actions of the model: a motion, the actions repeat treats apart, the
\* four actions of repeat.rs, and the action should_replay skips. An
\* Insertion stands for ReplayableAction::Insertion.
Insertion == "Insertion"
UserActions == {"Move", "ShowCharacterPalette"}

Next_(id) == [kind |-> "next", id |-> id, action |-> "none"]
Dispatch(action) == [kind |-> "dispatch", id |-> 0, action |-> action]
Observe(action) == [kind |-> "observe_action", id |-> 0, action |-> action]

should_replay(action) == action # "ShowCharacterPalette"

\* The InsertBefore family; InsertLineBelow and ToggleReplace are not in the
\* actions of the model.
repeatable_insert(action) ==
    IF action = "InsertBefore" THEN "InsertBefore" ELSE "none"

\* cx.defer(callback): the window runs the deferred callbacks in order.
defer(v, callback) == [v EXCEPT !.deferred = Append(@, callback)]

\* recordings.entry(register).or_default().push(action)
push(v, register, action) ==
    [v EXCEPT !.recordings[register] =
        [present |-> TRUE, actions |-> Append(@.actions, action)]]

NewReplayer == [actions |-> <<>>, running |-> FALSE, ix |-> 0]

\* Replayer::replay on the replayer id.
replay(v, id, actions) ==
    LET lock == v.replayers[id]
        at == IF lock.ix < Len(lock.actions) THEN lock.ix ELSE Len(lock.actions)
        spliced == [v EXCEPT !.replayers[id].actions =
                       SubSeq(lock.actions, 1, at) \o actions
                           \o SubSeq(lock.actions, at + 1, Len(lock.actions))]
    IN  IF lock.running THEN spliced ELSE defer(spliced, Next_(id))

\* replayer.get_or_insert_with(|| Replayer::new(editor)).replay(actions, cx)
get_or_insert_with_replay(v, actions) ==
    IF v.replayer # 0 THEN replay(v, v.replayer, actions)
    ELSE replay([v EXCEPT !.replayers = Append(@, NewReplayer),
                          !.replayer = Len(v.replayers) + 1],
                Len(v.replayers) + 1, actions)

\* Vim::take_count
take_count(v) == [v EXCEPT !.count = 0]

register_to_replayLastRecorded(v, register) ==
    IF register = LastReplayed THEN v.last_recorded_register ELSE register
register_to_replay(v, register) ==
    IF register = LastReplayed THEN v.last_replayed_register ELSE register

\* The while loop of lines 159-162.
RECURSIVE extend(_, _, _)
extend(repeated, actions, count) ==
    IF count > 0 THEN extend(repeated \o actions, actions, count - 1)
    ELSE repeated

repeated_actionsOnce(actions, count) == actions
repeated_actions(actions, count) == extend(<<>>, actions, count)

replay_register(v, register) ==
    LET count == IF v.count = 0 THEN 1 ELSE v.count
        taken == take_count(v)
        resolved == register_to_replay(v, register)
    IN  IF resolved = NoRegister THEN taken
        ELSE IF ~v.recordings[resolved].present THEN taken
        ELSE IF ~v.active_editor THEN taken
        ELSE get_or_insert_with_replay(
                 [taken EXCEPT !.last_replayed_register = resolved],
                 repeated_actions(v.recordings[resolved].actions, count))

\* The repetitions of a repeatable insert, lines 277-300.
insert_repetitions(actions, to_repeat, count, from_insert_mode) ==
    LET popped == IF actions[Len(actions)] = "NormalBefore"
                  THEN SubSeq(actions, 1, Len(actions) - 1) ELSE actions
        replaced == [popped EXCEPT ![1] = to_repeat]
        first == IF from_insert_mode THEN replaced ELSE popped
        times == IF from_insert_mode THEN count - 1 ELSE count
    IN  first \o repeated_actions(replaced, IF times > 1 THEN times - 1 ELSE 0)
              \o <<"NormalBefore">>

repeat(v, from_insert_mode) ==
    IF v.recorded_actions = <<>> THEN v
    ELSE IF ~v.active_editor THEN v
    ELSE
        LET count == v.count
            taken == take_count(v)
            selected ==
                IF v.recorded_selection # "None"
                THEN [taken EXCEPT !.recorded_count = 0]
                ELSE IF count # 0 THEN [taken EXCEPT !.recorded_count = count]
                ELSE taken
            recorded ==
                IF selected.replayer = 0 /\ selected.recording_register # NoRegister
                THEN push(selected, selected.recording_register, "Repeat")
                ELSE selected
            actions == v.recorded_actions
            expanded ==
                IF repeatable_insert(actions[1]) # "none"
                THEN insert_repetitions(actions, repeatable_insert(actions[1]),
                         IF recorded.recorded_count = 0 THEN 1
                         ELSE recorded.recorded_count,
                         from_insert_mode)
                ELSE actions
        IN  get_or_insert_with_replay([recorded EXCEPT !.dot_replaying = TRUE],
                                      Append(expanded, "EndRepeat"))

\* The part of observe_action and of observe_insertion for the dot recording.
record_for_dot(v, action) ==
    IF ~v.dot_recording THEN v
    ELSE IF v.stop_recording_after_next_action
        THEN [v EXCEPT !.recorded_actions = Append(@, action),
                       !.dot_recording = FALSE,
                       !.stop_recording_after_next_action = FALSE]
    ELSE [v EXCEPT !.recorded_actions = Append(@, action)]

observe_action(v, action) ==
    LET dotted == record_for_dot(v, action)
    IN  IF dotted.replayer = 0 /\ dotted.recording_register # NoRegister
        THEN push(dotted, dotted.recording_register, action)
        ELSE dotted

observe_insertion(v) ==
    IF v.ignore_current_insertion
    THEN [v EXCEPT !.ignore_current_insertion = FALSE]
    ELSE LET dotted == record_for_dot(v, Insertion)
         IN  IF dotted.recording_register # NoRegister
             THEN push(dotted, dotted.recording_register, Insertion)
             ELSE dotted

\* The handlers register() installs. ToggleRecord that finds no recording
\* pushes Operator::RecordRegister: the register is named by the next key.
end_repeatKeepingFlag(v) == v
end_repeat(v) == [v EXCEPT !.dot_replaying = FALSE]

toggle_record(v) ==
    IF v.recording_register # NoRegister
    THEN [v EXCEPT !.last_recorded_register = v.recording_register,
                   !.recording_register = NoRegister]
    ELSE v

replay_last_recording(v) ==
    IF v.last_recorded_register = NoRegister THEN v
    ELSE replay_register(v, v.last_recorded_register)

\* What cx.dispatch_action(action) runs.
dispatch(v, action) ==
    CASE action = "Repeat" -> repeat(v, FALSE)
      [] action = "EndRepeat" -> end_repeat(v)
      [] action = "ToggleRecord" -> toggle_record(v)
      [] action = "ReplayLastRecording" -> replay_last_recording(v)
      [] OTHER -> v

\* Replayer::next on the replayer id.
next(v, id) ==
    LET lock == v.replayers[id]
        found == lock.ix < Len(lock.actions)
        action == IF found THEN lock.actions[lock.ix + 1] ELSE "none"
        advanced == [v EXCEPT !.replayers[id].ix = @ + 1]
    IN  IF ~found THEN [advanced EXCEPT !.replayer = 0]
        ELSE IF action = Insertion THEN defer(advanced, Next_(id))
        ELSE IF should_replay(action)
            THEN defer(defer(defer(advanced, Dispatch(action)), Observe(action)),
                       Next_(id))
        ELSE defer(advanced, Next_(id))

\* The register named after ToggleRecord: the recording starts afresh.
record_register(v, register) ==
    [v EXCEPT !.recording_register = register,
              !.recordings[register] = NoRecording]

\* A keystroke is handled when the window has no callback left to run.
Keystroke(op, register) ==
    /\ vim.deferred = <<>>
    /\ steps < MaxSteps
    /\ steps' = steps + 1
    /\ last_call' = [op |-> op, register |-> register, count |-> vim.count]
    /\ UNCHANGED <<stopped, discoveryVars, panelVars, runtimeVars>>

\* A digit before a command.
TypeCount(count) ==
    /\ vim.count = 0
    /\ Keystroke("count", NoRegister)
    /\ vim' = [vim EXCEPT !.count = count]

\* A key bound to an action that repeat.rs does not handle: the action runs
\* and is observed.
TypeAction(action) ==
    /\ Keystroke("action", NoRegister)
    /\ vim' = observe_action(vim, action)

\* Text typed in insert mode.
TypeText ==
    /\ Keystroke("insertion", NoRegister)
    /\ vim' = observe_insertion(vim)

\* q and a register, no recording in progress.
StartRecording(register) ==
    /\ vim.recording_register = NoRegister
    /\ Keystroke("record_register", register)
    /\ vim' = record_register(observe_action(toggle_record(vim), "ToggleRecord"),
                              register)

\* q during a recording.
StopRecording ==
    /\ vim.recording_register # NoRegister
    /\ Keystroke("toggle_record", NoRegister)
    /\ vim' = observe_action(toggle_record(vim), "ToggleRecord")

\* @ and a register.
ReplayRegister(register) ==
    /\ Keystroke("replay_register", register)
    /\ vim' = replay_register(vim, register)

\* Q, outside a recording.
ReplayLastRecording ==
    /\ vim.recording_register = NoRegister
    /\ Keystroke("replay_last_recording", NoRegister)
    /\ vim' = observe_action(replay_last_recording(vim), "ReplayLastRecording")

\* The dot.
Repeat ==
    /\ Keystroke("repeat", NoRegister)
    /\ vim' = observe_action(repeat(vim, FALSE), "Repeat")

\* The window runs the first deferred callback.
Deferred(kind) ==
    /\ vim.deferred # <<>>
    /\ Head(vim.deferred).kind = kind
    /\ UNCHANGED <<steps, last_call, stopped, discoveryVars, panelVars, runtimeVars>>

ReplayerNext ==
    /\ Deferred("next")
    /\ vim' = next([vim EXCEPT !.deferred = Tail(@)], Head(vim.deferred).id)

DispatchAction ==
    /\ Deferred("dispatch")
    /\ vim' = dispatch([vim EXCEPT !.deferred = Tail(@)], Head(vim.deferred).action)

ObserveAction ==
    /\ Deferred("observe_action")
    /\ vim' = observe_action([vim EXCEPT !.deferred = Tail(@)],
                             Head(vim.deferred).action)

\* Replayer::stop: the queued actions are dropped, those not yet taken
\* included; the position stays.
stop(v, id) == [v EXCEPT !.replayers[id].actions = <<>>]

\* The replay is stopped from a callback of the window. stop consumes the
\* replayer, which its caller takes out of the state.
StopReplaying ==
    /\ vim.deferred # <<>>
    /\ vim.replayer # 0
    /\ ~stopped
    /\ vim' = stop([vim EXCEPT !.replayer = 0], vim.replayer)
    /\ stopped' = TRUE
    /\ UNCHANGED <<steps, last_call, discoveryVars, panelVars, runtimeVars>>

\* What was recorded before the run: a change for the dot, and in register w
\* a motion, text, the dot itself, or the dot and a motion.
DotRecordings == {<<>>, <<"Move">>, <<"InsertBefore", Insertion, "NormalBefore">>}
RegisterRecordings ==
    {<<"Move">>, <<"Move", Insertion>>, <<"Repeat">>, <<"Repeat", "Move">>}

InitRecorded ==
    /\ InitLaunch /\ InitMux /\ InitHist /\ InitTracker
    /\ InitDiscovery /\ InitPanel
    /\ argv = <<"python3", Placeholder>>
    /\ fs = "RealFs"
    /\ enabled = TRUE
    /\ steps = 0
    /\ last_call = NoCall
    /\ stopped = FALSE
    /\ \E change \in DotRecordings, editor \in BOOLEAN :
           \/ vim = [IdleVim EXCEPT !.recorded_actions = change,
                                    !.active_editor = editor]
           \/ \E recorded \in RegisterRecordings :
                 /\ recorded[1] = "Repeat" => change # <<>>
                 /\ vim = [IdleVim EXCEPT
                              !.recorded_actions = change,
                              !.active_editor = editor,
                              !.recordings["w"] =
                                  [present |-> TRUE, actions |-> recorded],
                              !.last_recorded_register = "w"]

NextVim ==
    \/ \E count \in 1..MaxCount : TypeCount(count)
    \/ \E action \in UserActions : TypeAction(action)
    \/ TypeText
    \/ \E register \in Registers : StartRecording(register)
    \/ StopRecording
    \/ \E register \in Registers \cup {LastReplayed} : ReplayRegister(register)
    \/ ReplayLastRecording
    \/ Repeat
    \/ ReplayerNext
    \/ DispatchAction
    \/ ObserveAction

SpecVim == InitRecorded /\ [][NextVim]_vars

\* The same keys, and a replay that may be stopped on its way.
NextVimStop ==
    \/ NextVim
    \/ StopReplaying

SpecVimStop == InitRecorded /\ [][NextVimStop]_vars

\* ================================================================ claims
\* The kinds the claims send to the control channel.
ControlKinds == {"debug_request", "interrupt_request", "shutdown_request"}

\* The channel the claims assign to a kind of request.
ChannelOfKind(k) == IF k \in ControlKinds THEN "control" ELSE "shell"

SeqToSet(q) == {q[i] : i \in 1..Len(q)}

\* The messages the reader of the merged stream received from source s.
RECURSIVE FromSource(_, _)
FromSource(q, s) ==
    IF q = <<>> THEN <<>>
    ELSE IF Head(q).src = s THEN <<Head(q).msg>> \o FromSource(Tail(q), s)
    ELSE FromSource(Tail(q), s)

\* What task s has put into its leg of the merged stream, in order.
Forwarded(s) == FromSource(inbound, s) \o reply_q[s]

\* The requests of a sequence that the claims assign to channel c, in order.
RECURSIVE ForChannel(_, _)
ForChannel(q, c) ==
    IF q = <<>> THEN <<>>
    ELSE IF ChannelOfKind(Head(q).kind) = c THEN <<Head(q)>> \o ForChannel(Tail(q), c)
    ELSE ForChannel(Tail(q), c)

\* C2: a request is put in the control sub-queue exactly when its kind is
\* debug, interrupt or shutdown, and in the shell sub-queue otherwise, whatever
\* its id and whatever was routed before it.
C2_RoutedByKind ==
    \A c \in Channels : \A i \in 1..Len(routed[c]) :
        (c = "control") <=> (routed[c][i].kind \in ControlKinds)

\* C2 witness: every kind has been routed, some to each sub-queue.
C2_Witness ==
    /\ \E i \in 1..Len(routed["control"]) : routed["control"][i].kind = "shutdown_request"
    /\ \E i \in 1..Len(routed["shell"]) : routed["shell"][i].kind = "kernel_info_request"

\* Requests sent on socket c whose reply the worker has not read yet.
Outstanding(c) == Len(sock_in[c]) + Len(sock_out[c])

\* C3: on each of the shell and control sockets at most one request is
\* awaiting its reply.
C3_SingleFlight == \A c \in Channels : Outstanding(c) <= 1

\* C3 witness: a second request was sent on the shell socket and awaits its
\* reply while a control request awaits its reply too.
C3_Witness ==
    /\ Len(sent["shell"]) >= 2
    /\ Outstanding("shell") = 1
    /\ Outstanding("control") = 1

\* C4: the replies forwarded for a channel are, in order, the replies to the
\* first requests submitted to that channel, one each, and each was sent by
\* the kernel on that channel's socket.
C4_RepliesInOrder ==
    \A c \in Channels :
        LET fwd == Forwarded(c)
            req == ForChannel(submitted, c)
        IN /\ Len(fwd) <= Len(req)
           /\ \A i \in 1..Len(fwd) :
                /\ fwd[i].id = req[i].id
                /\ fwd[i].kind = req[i].kind
                /\ fwd[i].origin = c

\* C4 witness: two shell replies and a control reply have been forwarded.
C4_Witness ==
    /\ Len(Forwarded("shell")) >= 2
    /\ Len(Forwarded("control")) >= 1

\* The message a task read from its socket and has not forwarded yet.
Held(s) == IF task[s] = "forward" THEN <<hand[s]>> ELSE <<>>

Placed == Len(routed["shell"]) + Len(routed["control"])

\* Requests the worker of channel c has taken from its sub-queue.
TakenBy(c) ==
    Len(sent[c]) + Len(send_failed[c]) + (IF task[c] = "send" THEN 1 ELSE 0)

\* The request the router has taken and not placed yet.
RouterHeld == IF task["routing"] = "send" THEN <<hand["routing"]>> ELSE <<>>

C6_DropReleasesAll ==
    launch_pc = "dropped" =>
        /\ \A t \in Tasks : Ended(t)
        /\ ~request_open
        /\ process # "alive"
        /\ files = {}

\* C7: after a failed launch the descriptor file is in no storage, and the
\* file is in no storage once the process has ended.
C7_NoLeak ==
    /\ launch_pc = "failed" => files = {}
    /\ process \in {"exited", "killed"} => files = {}

\* C9: a task whose socket read failed has ended with an error.
C9_ReadErrorPropagates == \A t \in read_failed : task[t] = "err"

\* The reader of the merged stream has received the control reply to request i.
ControlReplyReceived(i) ==
    \E j \in 1..Len(inbound) : inbound[j].src = "control" /\ inbound[j].msg.id = i

\* C1: every accepted control-kind request gets its reply into the merged
\* stream although the kernel never answers on the shell socket, however many
\* shell requests were submitted before it.
C1_ControlNotBlocked ==
    \A i \in 1..FairRequests :
        (Len(submitted) >= i /\ submitted[i].kind \in ControlKinds)
            ~> ControlReplyReceived(i)

\* The send of the i-th request placed in sub-queue c has been attempted.
SendAttempted(c, i) ==
    /\ Len(routed[c]) >= i
    /\ routed[c][i] \in SeqToSet(sent[c]) \cup SeqToSet(send_failed[c])

\* C10: once a send has failed on a socket, every request placed in that
\* channel's sub-queue is still taken by the worker and sent.
C10_SendFailureTolerated ==
    \A c \in Channels : \A i \in 1..FairRequests :
        (Len(send_failed[c]) > 0 /\ Len(routed[c]) >= i) ~> SendAttempted(c, i)

\* ------------------------------------------------------ port allocation
\* C11: the five ports a successful peek_ports returned are pairwise distinct.
C11_PortsDistinct ==
    Len(ports) = NumPorts =>
        \A i, j \in 1..NumPorts : i # j => ports[i] # ports[j]

\* ---------------------------------------------------- launch validation
HasPlaceholder(av) == \E i \in 1..Len(av) : av[i] = Placeholder
Occurrences(av) == Cardinality({i \in 1..Len(av) : av[i] = Placeholder})
NoTaskStarted == \A t \in Tasks : task[t] = "unspawned"

\* C12: when validation is reached with an argv that has no placeholder, the
\* launch fails there with an error that names the kernelspec, and a launch
\* that failed validation has no child process and no routing task.
C12_MissingPlaceholderAborts ==
    /\ [][(launch_pc = "command" /\ ~HasPlaceholder(argv)) =>
            /\ launch_pc' = "failed"
            /\ launch_error'.step = "argv"
            /\ launch_error'.kernelspec = KernelspecName
            /\ process' = "none"]_vars
    /\ [](launch_error.step = "argv" =>
            /\ launch_pc = "failed"
            /\ process = "none"
            /\ NoTaskStarted)

\* C12 witness: a launch failed on the missing placeholder.
C12_Witness ==
    /\ launch_pc = "failed"
    /\ launch_error.message = "Missing 'connection_file' in argv in kernelspec {}"
    /\ launch_error.kernelspec = KernelspecName
    /\ process = "none"

\* C13: a Command is built only for an argv in which the placeholder occurs
\* exactly once.
C13_PlaceholderExactlyOnce == cmd.ok => Occurrences(argv) = 1

\* C14: validation of an empty argv fails with the empty-argv error and
\* validation of a one-token argv with the invalid-argv error, whether or not
\* the token is the placeholder.
C14_ShortArgvRejected ==
    [][launch_pc = "command" =>
        /\ Len(argv) = 0 =>
              /\ launch_pc' = "failed"
              /\ launch_error'.message = "Empty argv in kernelspec {}"
        /\ Len(argv) = 1 =>
              /\ launch_pc' = "failed"
              /\ launch_error'.message = "Invalid argv in kernelspec {}"]_vars

\* C14 witness: a launch failed on a one-token argv.
C14_Witness ==
    /\ launch_pc = "failed"
    /\ launch_error.message = "Invalid argv in kernelspec {}"

\* C15: a launch whose port allocation failed has ended there: no listener
\* is open, no descriptor file is written, no process and no task exist.
C15_BindErrorAborts ==
    launch_error.step = "ports" =>
        /\ launch_pc = "failed"
        /\ listening = {}
        /\ files = {}
        /\ process = "none"
        /\ NoTaskStarted

\* C15 witness: a launch ended on a bind error.
C15_Witness == launch_error.step = "ports" /\ launch_pc = "failed"

\* C16: once the RunningKernel is dropped, or the launch has failed, no child
\* process of the launch is alive.
C16_NoOrphan == launch_pc \in {"dropped", "failed"} => process # "alive"

\* C16 witness: the drop of the RunningKernel killed a live process.
C16_Witness == launch_pc = "dropped" /\ process = "killed"

\* ------------------------------------------------------------ the Kernel
\* C17: the variant of the Kernel changes only from StartingKernel to
\* RunningKernel or ErroredLaunch, from RunningKernel to ShuttingDown and
\* from ShuttingDown to Shutdown.
C17_OneWay ==
    [][kernel'.variant # kernel.variant =>
        <<kernel.variant, kernel'.variant>> \in
            {<<"StartingKernel", "RunningKernel">>,
             <<"StartingKernel", "ErroredLaunch">>,
             <<"RunningKernel", "ShuttingDown">>,
             <<"ShuttingDown", "Shutdown">>}]_vars

\* C17 witness: a Kernel that was shut down received a status afterwards.
C17_Witness ==
    /\ kernel.variant = "Shutdown"
    /\ \E i \in 1..Len(updates) :
          updates[i].op = "status" /\ updates[i].on = "Shutdown"

\* C18: a call of set_execution_state or set_kernel_info leaves a Kernel that
\* is not RunningKernel as it was, and never changes the variant.
C18_OnlyRunningChanges ==
    [][updates' # updates =>
        /\ kernel'.variant = kernel.variant
        /\ kernel.variant # "RunningKernel" => kernel' = kernel]_vars

\* C18 witness: both setters were called on a Kernel that is not running,
\* one of them after Shutdown.
C18_Witness ==
    \E i, j \in 1..Len(updates) :
        /\ updates[i].op = "kernel_info" /\ updates[i].on = "Shutdown"
        /\ updates[j].op = "status" /\ updates[j].on # "RunningKernel"

\* The updates of one kind that were made while the Kernel was running.
RunningUpdates(op) ==
    SelectSeq(updates, LAMBDA u : u.op = op /\ u.on = "RunningKernel")
\* The value of the last of them, or what new set.
Latest(op, initial) ==
    IF RunningUpdates(op) = <<>> THEN initial
    ELSE RunningUpdates(op)[Len(RunningUpdates(op))].value

\* C19: on a running Kernel the status is the last one reported and the
\* kernel-info the last one received, each whatever the updates of the other
\* kind; a status update sets the status it reports, and a second one with the
\* same status changes nothing.
C19_OverwriteOnLatest ==
    kernel.variant = "RunningKernel" =>
        /\ kernel.execution_state = Latest("status", "Busy")
        /\ kernel.kernel_info = Latest("kernel_info", "None")
        /\ \A status \in ExecutionStates :
              LET once == set_execution_state(kernel, status)
              IN /\ once.execution_state = status
                 /\ once.kernel_info = kernel.kernel_info
                 /\ set_execution_state(once, status) = once
        /\ \A kernel_info \in KernelInfos :
              set_kernel_info(kernel, kernel_info).execution_state =
                  kernel.execution_state

\* C19 witness: a running Kernel got a status, a kernel-info and then another
\* status.
C19_Witness ==
    /\ kernel.variant = "RunningKernel"
    /\ Len(RunningUpdates("status")) = 2
    /\ RunningUpdates("status")[1].value # RunningUpdates("status")[2].value
    /\ Len(updates) = 3
    /\ updates[2].op = "kernel_info"

\* The colour the claims give for a variant and an execution state.
IndicatorOf(variant, execution_state) ==
    IF variant = "RunningKernel"
    THEN (IF execution_state = "Idle" THEN "Success" ELSE "Modified")
    ELSE IF variant = "ErroredLaunch" THEN "Error"
    ELSE IF variant = "Shutdown" THEN "Disabled"
    ELSE "Modified"

\* C20: the indicator dot() returned is the one the table gives for the
\* variant and execution state the Kernel had, and a call of dot() leaves the
\* Kernel as it was.
C20_DotIsPure ==
    /\ [](indicator.color # "none" =>
            indicator.color = IndicatorOf(indicator.variant,
                                          indicator.execution_state))
    /\ [][indicator' # indicator => kernel' = kernel]_vars

\* C20 witness: dot() was called on a running, idle Kernel.
C20_Witness ==
    /\ indicator.variant = "RunningKernel"
    /\ indicator.execution_state = "Idle"
    /\ indicator.color = "Success"

\* ------------------------------------------------- the end of the tasks
Workers == {"shell", "control"}

C29_OtherChannelServed ==
    (launch_pc = "running" /\ \E c \in Channels : ~Ended(c)) =>
        task["routing"] # "err"

\* C30: the process starts only with the descriptor file written through
\* fs, and a channel is opened only to a process that was spawned.
C30_FileThenProcessThenChannels ==
    /\ [][(process = "none" /\ process' # "none") =>
            StorageOf(fs) \in files]_vars
    /\ [](launch_pc \in {"connect_shell", "connect_control", "spawn_tasks",
                          "running"} => process # "none")

\* C30 witness: the process is spawned, the file is written, and the first
\* channel is about to be opened.
C30_Witness ==
    /\ launch_pc = "connect_iopub"
    /\ process = "alive"
    /\ StorageOf(fs) \in files

\* ------------------------------------------- discovery of the kernelspecs
\* The entries of root r that are directories with a kernel.json that parses.
ValidEntries(r) ==
    {i \in 1..Len(roots[r].entries) : roots[r].entries[i].kind = "dir_valid"}

\* The specification a valid entry stands for is in the list exactly once.
ListedOnce(specs, r, i) ==
    Cardinality({j \in 1..Len(specs) :
        specs[j] = [path |-> <<DataDirs[r], i>>, name |-> i,
                    language |-> roots[r].entries[i].language]}) = 1

\* C22: the scan of a kernels directory that can be listed succeeds whatever
\* its entries are, and returns one specification for each subdirectory whose
\* kernel.json parses and nothing else.
C22_ScanReturnsTheValid ==
    \A r \in 1..Len(DataDirs) :
        (dir_results[r].done /\ roots[r].listable) =>
            /\ dir_results[r].ok
            /\ Len(dir_results[r].specs) = Cardinality(ValidEntries(r))
            /\ \A i \in ValidEntries(r) : ListedOnce(dir_results[r].specs, r, i)

\* A scanned directory with a failing entry, a malformed kernel.json and a
\* valid kernelspec.
C22_Witness ==
    \E r \in 1..Len(DataDirs) :
        /\ dir_results[r].done
        /\ roots[r].listable
        /\ ValidEntries(r) # {}
        /\ \E i \in 1..Len(roots[r].entries) :
               roots[r].entries[i].kind \in {"entry_err", "dir_malformed"}
        /\ Len(dir_results[r].specs) = 1

\* C23: discovery succeeds whatever roots can be listed, and returns in one
\* list the specifications of the roots that can, each once.
C23_MissingRootsAreEmpty ==
    discovered.done =>
        /\ discovered.ok
        /\ \A r \in 1..Len(DataDirs) : \A i \in ValidEntries(r) :
               ListedOnce(discovered.specs, r, i)
        /\ \A j \in 1..Len(discovered.specs) :
               \E r \in 1..Len(DataDirs) :
                   /\ roots[r].listable
                   /\ discovered.specs[j].path[1] = DataDirs[r]
                   /\ discovered.specs[j].name \in ValidEntries(r)

\* Discovery is over, one root could not be listed and another one held a
\* kernelspec.
C23_Witness ==
    /\ discovered.done
    /\ \E r \in 1..Len(DataDirs) : ~roots[r].listable
    /\ \E r \in 1..Len(DataDirs) : ValidEntries(r) # {}
    /\ discovered.specs # <<>>

\* ---------------------------------------------------------- RuntimePanel
\* The positions of the specifications whose language is the string asked for.
Matching(language_name) ==
    {i \in 1..Len(kernel_specifications) :
        kernel_specifications[i].language = language_name}

\* A step of run that reaches the lookup.
LooksUp ==
    /\ runs' = runs + 1
    /\ enabled
    /\ last_run'.snippet # "none"

\* C24: the lookup returns the first specification of the list whose language
\* is the same string as the requested one, and None when there is none.
C24_FirstExactMatch ==
    [][LooksUp =>
        IF Matching(last_run'.snippet) = {}
        THEN kernelspec(kernel_specifications, last_run'.snippet) = None
        ELSE \E i \in Matching(last_run'.snippet) :
                /\ \A j \in Matching(last_run'.snippet) : i <= j
                /\ kernelspec(kernel_specifications, last_run'.snippet)
                       = Some(kernel_specifications[i])
                /\ last_run'.lookup = Some(kernel_specifications[i])]_vars

\* A lookup found the second specification of the list, the first one
\* differing from the request by case only.
C24_Witness ==
    /\ last_run.lookup.found
    /\ Len(kernel_specifications) = 2
    /\ last_run.lookup.spec = kernel_specifications[2]
    /\ kernel_specifications[1].language = "Python"
    /\ last_run.snippet = "python"

\* C25: run on an enabled panel with a snippet of a language no specification
\* has returns the no-kernel error, creates no session and executes nothing.
C25_NoKernelNoSession ==
    [][(LooksUp /\ Matching(last_run'.snippet) = {}) =>
        /\ last_run'.result = "no_kernel"
        /\ sessions' = sessions
        /\ ~last_run'.created
        /\ last_run'.executed_on = NoSession]_vars

\* A run failed for want of a kernel on an editor without a session while
\* the panel held specifications of other languages.
C25_Witness ==
    /\ last_run.result = "no_kernel"
    /\ kernel_specifications # <<>>
    /\ Matching(last_run.snippet) = {}
    /\ sessions[last_run.editor] = NoSession

\* ------------------------------------------------- vim: record and replay
\* The key of this step is @ followed by the register.
Replays(register) ==
    /\ steps' = steps + 1
    /\ last_call'.op = "replay_register"
    /\ last_call'.register = register

\* The count the key of this step takes: one when none was typed.
CountTaken == IF vim.count = 0 THEN 1 ELSE vim.count

\* queued is the sequence of actions, n times over.
Copies(queued, actions, n) ==
    /\ Len(queued) = n * Len(actions)
    /\ \A k \in 1..Len(queued) : queued[k] = actions[((k - 1) % Len(actions)) + 1]

\* This step installs a replayer that holds the recording of the register
\* the count of times, and defers its first next.
QueuesCopies(register) ==
    /\ vim'.replayer # 0
    /\ vim'.replayers[vim'.replayer].ix = 0
    /\ Copies(vim'.replayers[vim'.replayer].actions,
              vim.recordings[register].actions, CountTaken)
    /\ vim'.deferred = <<Next_(vim'.replayer)>>

\* This step queues nothing.
QueuesNothing ==
    /\ vim'.replayer = 0
    /\ vim'.replayers = vim.replayers
    /\ vim'.deferred = <<>>
    /\ vim'.recordings = vim.recordings

\* C26: the replay of a register queues its recording as many times as the
\* count says, once without a count, and nothing when the register has no
\* recording (or when Vim has no active editor).
C26_CountCopies ==
    [][\A register \in Registers :
          Replays(register) =>
              IF vim.recordings[register].present /\ vim.active_editor
              THEN QueuesCopies(register)
              ELSE QueuesNothing]_vars

\* Register w was replayed with the count 2: the replayer holds its two
\* actions twice.
C26_Witness ==
    /\ last_call = [op |-> "replay_register", register |-> "w", count |-> 2]
    /\ vim.replayer # 0
    /\ vim.replayers[vim.replayer].actions = <<"Move", Insertion, "Move", Insertion>>
    /\ vim.deferred = <<Next_(vim.replayer)>>

\* C27: the replay of @ is the replay of the register replayed last, and
\* nothing when there is none; the register replayed last changes only in a
\* step that finds the recording of that register and an active editor, and
\* queues it.
C27_LastReplayed ==
    [][/\ Replays(LastReplayed) =>
          IF /\ vim.last_replayed_register # NoRegister
             /\ vim.recordings[vim.last_replayed_register].present
             /\ vim.active_editor
          THEN /\ QueuesCopies(vim.last_replayed_register)
               /\ vim'.last_replayed_register = vim.last_replayed_register
          ELSE QueuesNothing
       /\ vim'.last_replayed_register # vim.last_replayed_register =>
          /\ vim'.last_replayed_register \in Registers
          /\ vim.recordings[vim'.last_replayed_register].present
          /\ vim.active_editor
          /\ vim'.replayer # 0
          /\ vim'.deferred # vim.deferred]_vars

\* @ replayed register w a second time, and w is still the register
\* replayed last.
C27_Witness ==
    /\ last_call.op = "replay_register"
    /\ last_call.register = LastReplayed
    /\ vim.last_replayed_register = "w"
    /\ vim.replayer # 0
    /\ Len(vim.replayers) = 2
    /\ vim.replayers[vim.replayer].ix = 0
    /\ vim.replayers[vim.replayer].actions = vim.recordings["w"].actions

\* C28: the callbacks of a replay (the next of a replayer, the action it
\* dispatches, the observation of that action) append nothing to the register
\* being recorded.
C28_ReplayNotRecorded ==
    [][(vim.deferred # <<>> /\ vim.recording_register # NoRegister) =>
          vim'.recordings = vim.recordings]_vars

\* ------------------------------------------------- the built command
\* C31: a Command built from an argv runs argv[0] with argv[1..] in order,
\* each placeholder replaced by the descriptor path and every other argument
\* as it is, so that the path is among the arguments and the placeholder is
\* not.
C31_PathAmongArguments ==
    (launch_pc = "spawn" /\ cmd.ok) =>
        /\ cmd.program = argv[1]
        /\ Len(cmd.args) = Len(argv) - 1
        /\ \A i \in 1..Len(cmd.args) :
               cmd.args[i] = IF argv[i + 1] = Placeholder THEN ConnectionPath
                             ELSE argv[i + 1]
        /\ \E i \in 1..Len(cmd.args) : cmd.args[i] = ConnectionPath
        /\ \A i \in 1..Len(cmd.args) : cmd.args[i] # Placeholder

\* ------------------------------------------------- a new RunningKernel
\* C32: the Kernel becomes RunningKernel as Busy and without kernel-info; a
\* running Kernel becomes Idle only in a status update that reports Idle, and
\* gets a kernel-info only in a kernel-info update, the one it then holds.
C32_BusyUntilUpdated ==
    [][/\ (kernel.variant # "RunningKernel" /\ kernel'.variant = "RunningKernel") =>
             /\ kernel'.execution_state = "Busy"
             /\ kernel'.kernel_info = "None"
       /\ (kernel'.variant = "RunningKernel" /\ kernel'.execution_state = "Idle"
               /\ kernel.execution_state # "Idle") =>
             updates' = Append(updates, [op |-> "status", value |-> "Idle",
                                         on |-> "RunningKernel"])
       /\ (kernel'.variant = "RunningKernel" /\ kernel'.kernel_info \in KernelInfos
               /\ kernel.kernel_info \notin KernelInfos) =>
             updates' = Append(updates, [op |-> "kernel_info",
                                         value |-> kernel'.kernel_info,
                                         on |-> "RunningKernel"])]_vars

\* A running Kernel that is Idle and holds a kernel-info after a status of
\* Busy, a kernel-info reply and a status of Idle.
C32_Witness ==
    /\ kernel.variant = "RunningKernel"
    /\ kernel.execution_state = "Idle"
    /\ kernel.kernel_info \in KernelInfos
    /\ Len(updates) = 3
    /\ updates[1] = [op |-> "status", value |-> "Busy", on |-> "RunningKernel"]
    /\ updates[2].op = "kernel_info"
    /\ updates[3] = [op |-> "status", value |-> "Idle", on |-> "RunningKernel"]

\* ------------------------------------------------- one session per editor
\* A step of run that returns Ok after it found a kernel for the snippet.
RunsOn(editor) ==
    /\ runs' = runs + 1
    /\ last_run'.editor = editor
    /\ last_run'.result = "ok"
    /\ last_run'.lookup.found

\* C33: the first successful run on an editor creates its session with the
\* kernel found; a later successful run on it executes in that session and
\* leaves the sessions as they are; no session is ever removed or replaced,
\* and the kernels of two sessions have different descriptor paths.
C33_OneSessionPerEditor ==
    [][/\ \A editor \in Editors :
             RunsOn(editor) =>
                IF sessions[editor] = NoSession
                THEN /\ last_run'.created
                     /\ sessions' = [sessions EXCEPT ![editor] = last_run'.lookup.spec]
                     /\ last_run'.executed_on = last_run'.lookup.spec
                ELSE /\ ~last_run'.created
                     /\ sessions' = sessions
                     /\ last_run'.executed_on = sessions[editor]
       /\ \A editor \in Editors :
             sessions[editor] # NoSession => sessions'[editor] = sessions[editor]
       /\ \A e1, e2 \in Editors :
             (e1 # e2 /\ sessions'[e1] # NoSession /\ sessions'[e2] # NoSession) =>
                 connection_path(e1) # connection_path(e2)]_vars

\* Both editors have a session, and the last run executed in the session of
\* its editor, created for another language than the one of its snippet.
C33_Witness ==
    /\ \A editor \in Editors : sessions[editor] # NoSession
    /\ last_run.result = "ok"
    /\ last_run.lookup.found
    /\ ~last_run.created
    /\ last_run.executed_on = sessions[last_run.editor]
    /\ last_run.executed_on.language # last_run.snippet

\* ------------------------------------------------- the order of a replay
\* The callback the window runs in this step, if it has one.
Callback == Head(vim.deferred)
\* The replayer of the next that runs in this step.
Lock == vim.replayers[Callback.id]

\* The handler of the action dispatched in this step passes actions to the
\* installed replayer: a replay inside a replay.
ReplaysInside ==
    /\ vim.deferred # <<>>
    /\ Callback.kind = "dispatch"
    /\ vim.replayer # 0
    /\ vim'.replayer = vim.replayer
    /\ Len(vim'.replayers[vim.replayer].actions)
           > Len(vim.replayers[vim.replayer].actions)

\* C34: a next takes the action at the current position, moves the position
\* by one and dispatches the action (one that should_replay admits) once,
\* behind the callbacks already deferred; the actions of a replay inside a
\* replay are placed before every action of the earlier replay that has not
\* run yet, so none of those is already on its way to be dispatched.
C34_InOrderAtCurrentPosition ==
    [][/\ (vim.deferred # <<>> /\ Callback.kind = "next"
              /\ Lock.ix < Len(Lock.actions)) =>
             /\ vim'.replayers[Callback.id].ix = Lock.ix + 1
             /\ (Lock.actions[Lock.ix + 1] # Insertion
                    /\ should_replay(Lock.actions[Lock.ix + 1])) =>
                   vim'.deferred = Tail(vim.deferred) \o
                       <<Dispatch(Lock.actions[Lock.ix + 1]),
                         Observe(Lock.actions[Lock.ix + 1]),
                         Next_(Callback.id)>>
       /\ ReplaysInside =>
             \A i \in 1..Len(vim'.deferred) : vim'.deferred[i].kind # "dispatch"]_vars

\* ------------------------------------------- the installed replayer
\* An action of a replay has not been dispatched yet: it is still to be taken
\* from the list, or it was taken and its dispatch is deferred.
Undispatched ==
    \/ \E id \in 1..Len(vim.replayers) :
           vim.replayers[id].ix < Len(vim.replayers[id].actions)
    \/ \E i \in 1..Len(vim.deferred) : vim.deferred[i].kind = "dispatch"

\* C36: while actions of a replay are undispatched a replayer is installed,
\* and the installed replayer leaves the state only in a next of its own that
\* finds no action left; a next left over from an earlier replayer never
\* removes a later one.
C36_InstalledUntilDone ==
    /\ [](Undispatched => vim.replayer # 0)
    /\ [][(vim.replayer # 0 /\ vim'.replayer # vim.replayer) =>
             /\ Callback.kind = "next"
             /\ Callback.id = vim.replayer
             /\ Lock.ix >= Len(Lock.actions)]_vars

\* ------------------------------------------------ the end of a repeat
\* The window has run every callback: what a key started is over.
Settled == vim.deferred = <<>>

SetsDotReplaying == ~vim.dot_replaying /\ vim'.dot_replaying

====
